---- MODULE Spec2Model ----
(***************************************************************************)
(* Model of the rustllvm bridge: the archive wrapper (ArchiveWrapper.cpp,  *)
(* src/unnamed/part_004 lines 444-622) and the LLVM wrapper                *)
(* (RustWrapper.cpp, src/unnamed/part_001).                                *)
(*                                                                         *)
(*   Spec         the archive reader/writer and the Last-Error slot,       *)
(*                driven by one thread.                                    *)
(*   SpecThreads  the same calls made by two threads.                      *)
(*   SpecIR       enum translation, the instruction and metadata builders  *)
(*                that use it, and the fatal-error handler.                *)
(*   SpecFn       the functions of a module and their attribute lists.     *)
(*   SpecDI       translation of the debug-info flag bitsets.              *)
(*   SpecInsn     exception-handling pads, compare-exchange and the        *)
(*                inline-assembly constraint check.                        *)
(*   SpecDbg      the debug-info builder's life cycle, static variables    *)
(*                and diagnostic kinds.                                    *)
(*   SpecVariant  variant members and variant parts.                       *)
(*   SpecDiag     unpacking optimization remarks, inline-assembly and      *)
(*                source-manager diagnostics into the caller's             *)
(*                out-parameters.                                          *)
(*   SpecConst    reading a constant integer back as two 64-bit words.     *)
(*   SpecHeap     the Last-Error slot at the level of its allocations.     *)
(***************************************************************************)
EXTENDS Integers, Sequences, FiniteSets, TLC

VARIABLES
    llvmMinor,   \* LLVM_VERSION_MINOR the archive wrapper was built against
    LastError,   \* static LLVM_THREAD_LOCAL char *LastError, one per thread
    fs,          \* the file system: path -> sequence of tokens, or NoFile
    archives,    \* the RustArchive objects made by LLVMRustOpenArchive
    iters,       \* the RustArchiveIterator objects
    children,    \* the Archive::Child copies handed to the caller
    writes,      \* number of archives written so far
    wrote,       \* per destination: the members the last write was given
    last,        \* the most recent bridge call: who, what, what it returned
    fail,        \* per thread: the most recent failing call since the last read
    llvmMajor,   \* LLVM_VERSION_MAJOR the LLVM wrapper was built against
    handler,     \* the fatal error handler installed in the backend
    proc,        \* "running", or "exited" once the process has terminated
    log,         \* what the process did while terminating, in order
    node,        \* the value or metadata node the caller's handle refers to
    module,      \* the functions of the module M, by name
    bcall,       \* the most recent call into the LLVM wrapper
    mem,         \* the value in the memory cell the atomic instructions address
    dibuilder,   \* the DIBuilder made by LLVMRustDIBuilderCreate
    gv,          \* the global variable a static-variable entry is bound to
    elems,       \* the metadata nodes collected for an element array
    composite,   \* the composite type the caller last had made
    out,         \* the caller's out-parameters after the most recent call
    di,          \* the diagnostic the backend handed to the caller's handler
    heap,        \* the blocks malloc hands out for Last-Error messages
    pending      \* per thread, the message of the LLVMRustSetLastError it
                 \* is in, between its free and its strdup

avars == <<llvmMinor, LastError, fs, archives, iters, children, writes,
           wrote, last, fail>>

irvars == <<llvmMajor, handler, proc, log, node, module, bcall>>

dvars == <<mem, dibuilder, gv, elems, composite, out, di, heap,
           pending>>

vars == <<avars, irvars, dvars>>

----------------------------------------------------------------------------
(* Bounds of the model.                                                    *)

MaxArchives == 1
MaxIters == 1
MaxChildren == 1
MaxMembers == 2
MaxWrites == 1

Threads == {1, 2}
MinorVersions == {5, 6, 7}

NULL == "<null>"
NullHandle == 0

----------------------------------------------------------------------------
(* The archive container, as the backend library reads and writes it.      *)
(* A file is a sequence of tokens of one shape, [tag, name, n].            *)

Tok(tag, name, n) == [tag |-> tag, name |-> name, n |-> n]

Magic == Tok("magic", "", 0)
ThinMagic == Tok("thin", "", 0)
Hdr(name, size) == Tok("hdr", name, size)
HdrRef(size) == Tok("hdrref", "", size)
SymTab == Tok("symtab", "/", 0)
Byte(b) == Tok("byte", "", b)
Pad == Tok("pad", "", 0)

NoFile == <<Tok("nofile", "", 0)>>

Bytes(data) == [i \in 1..Len(data) |-> Byte(data[i])]

EmitOne(m) ==
    <<Hdr(m.name, Len(m.data))>> \o Bytes(m.data)
        \o (IF Len(m.data) % 2 = 1 THEN <<Pad>> ELSE <<>>)

RECURSIVE EmitMembers(_)
EmitMembers(ms) ==
    IF ms = <<>> THEN <<>> ELSE EmitOne(Head(ms)) \o EmitMembers(Tail(ms))

\* The first bytes of an object file that createSymbolicFile recognises.
ElfMagic == <<127, 69, 76, 70>>

\* writeSymbolTable asks createSymbolicFile for each member and skips the
\* members that are no object files; the header of the table is emitted at the
\* first object file found, so an archive without one has no table member.
IsSymbolicFile(data) == Len(data) > 4 /\ SubSeq(data, 1, 4) = ElfMagic

\* The bytes writeArchive produces for resolved members (name and data known).
ArchiveBytes(ms, WriteSymbtab) ==
    <<Magic>>
        \o (IF WriteSymbtab /\ \E i \in DOMAIN ms : IsSymbolicFile(ms[i].data)
            THEN <<SymTab>> ELSE <<>>)
        \o EmitMembers(ms)

IsHeader(tok) == tok.tag \in {"hdr", "hdrref", "symtab"}

\* The children of an archive buffer from position pos on; <<"bad">> marks a
\* malformed buffer.  A child keeps its header token and its payload bytes.
RECURSIVE ParseChildren(_, _, _)
ParseChildren(buf, pos, thin) ==
    IF pos > Len(buf) THEN [ok |-> TRUE, kids |-> <<>>]
    ELSE IF ~IsHeader(buf[pos]) THEN [ok |-> FALSE, kids |-> <<>>]
    ELSE LET h == buf[pos]
             size == IF thin \/ h.tag = "symtab" THEN 0 ELSE h.n
             stop == pos + size
             next == stop + 1 + (size % 2)
         IN IF stop > Len(buf) THEN [ok |-> FALSE, kids |-> <<>>]
            ELSE LET rest == ParseChildren(buf, next, thin)
                     kid == [hdr |-> h,
                             data |-> [i \in 1..size |-> buf[pos + i].n]]
                 IN [ok |-> rest.ok, kids |-> <<kid>> \o rest.kids]

\* The messages of the error codes the library reports.
ENOENT == "No such file or directory"
EINVAL == "Invalid data was encountered while parsing the file"
invalid_file_type == "The file was not recognized as a valid object file"
EUNSUPPORTED == "writing archives not supported with this LLVM version"

\* Archive::create / Archive::Archive on a memory buffer: a buffer that does
\* not start with an archive magic is no file of a known type.
ArchiveCreate(buf, minor) ==
    IF Len(buf) = 0 \/ buf[1].tag \notin {"magic", "thin"}
    THEN [ok |-> FALSE, thin |-> FALSE, kids |-> <<>>,
          msg |-> invalid_file_type]
    ELSE IF buf[1].tag = "thin" /\ minor < 7
    THEN [ok |-> FALSE, thin |-> FALSE, kids |-> <<>>,
          msg |-> invalid_file_type]
    ELSE LET thin == buf[1].tag = "thin"
             p == ParseChildren(buf, 2, thin)
         IN [ok |-> p.ok, thin |-> thin,
             kids |-> IF p.ok THEN p.kids ELSE <<>>,
             msg |-> IF p.ok THEN NULL ELSE EINVAL]


\* Archive::child_begin(SkipInternal = true): the first regular child.
RECURSIVE FirstRegular(_, _)
FirstRegular(kids, i) ==
    IF i > Len(kids) THEN i
    ELSE IF kids[i].hdr.tag = "symtab" THEN FirstRegular(kids, i + 1)
    ELSE i

\* Archive::Child::getName: a name that refers into the string table of an
\* archive that has none is a parse failure.
ChildGetName(kid) ==
    IF kid.hdr.tag = "hdrref" THEN [ok |-> FALSE, name |-> "", msg |-> EINVAL]
    ELSE [ok |-> TRUE, name |-> kid.hdr.name, msg |-> NULL]

\* The payload of a plain file, byte by byte.
FileData(buf) == [i \in 1..Len(buf) |-> buf[i].n]

\* Archive::Child::getBuffer: the payload inside the archive, or for a thin
\* archive the contents of the file the member names.
ChildGetBuffer(a, kid, files) ==
    IF ~a.thin THEN [ok |-> TRUE, data |-> kid.data, msg |-> NULL]
    ELSE LET nm == ChildGetName(kid)
         IN IF ~nm.ok THEN [ok |-> FALSE, data |-> <<>>, msg |-> nm.msg]
            ELSE IF nm.name \notin DOMAIN files \/ files[nm.name] = NoFile
            THEN [ok |-> FALSE, data |-> <<>>, msg |-> ENOENT]
            ELSE [ok |-> TRUE, data |-> FileData(files[nm.name]), msg |-> NULL]

----------------------------------------------------------------------------
(* The world the bridge is called in.                                      *)

Paths == {"nofile", "x.o", "old.a", "thin.a", "lib.a"}
DstPaths == {"lib.a"}
MemberFiles == {"x.o", "nofile"}
ArchiveKinds == {"K_GNU"}

InitFs ==
    [p \in Paths |->
        CASE p = "x.o" -> <<Byte(7)>>
          [] p = "old.a" -> <<Magic, Hdr("m1", 1), Byte(7), Pad,
                                HdrRef(2), Byte(8), Byte(9)>>
          [] p = "thin.a" -> <<ThinMagic, Hdr("nofile", 3)>>
          [] OTHER -> NoFile]

\* What LLVMRustWriteArchive was last asked to put at a path, if anything.
NotWritten == [known |-> FALSE, symtab |-> FALSE, members |-> <<>>]

\* Unused slots of the object pools.
NoArchive == [live |-> FALSE, thin |-> FALSE, kids |-> <<>>, src |-> NotWritten]
NoIter == [live |-> FALSE, ar |-> 0, cur |-> 0, end |-> 0, out |-> <<>>,
           ended |-> FALSE]
NoChild == [live |-> FALSE, ar |-> 0, idx |-> 0]

\* fail[t]: the call of thread t that failed most recently since t last read
\* the slot (op, msg), and the message t itself last passed to
\* LLVMRustSetLastError since then (rec).  After a read op is "read".
NoFail == [op |-> "none", msg |-> NULL, rec |-> NULL]
WasRead == [op |-> "read", msg |-> NULL, rec |-> NULL]

\* last: thread, operation, handle argument, path argument, whether the call
\* returned null or failure, the handle or number returned, the string and
\* the bytes returned, the message the call recorded; for a read of the slot
\* also fail[t] as it was before the read (from, due).
NoCall == [t |-> 0, op |-> "none", arg |-> 0, path |-> "", null |-> FALSE,
           h |-> 0, s |-> "", d |-> <<>>, err |-> NULL, from |-> "none",
           due |-> NULL]

\* No call into the archive wrapper has been made.
ArchiveIdle ==
    /\ LastError = [t \in Threads |-> NULL]
    /\ fs = InitFs
    /\ archives = [i \in 1..MaxArchives |-> NoArchive]
    /\ iters = [i \in 1..MaxIters |-> NoIter]
    /\ children = [i \in 1..MaxChildren |-> NoChild]
    /\ writes = 0
    /\ wrote = [p \in DstPaths |-> NotWritten]
    /\ last = NoCall
    /\ fail = [t \in Threads |-> NoFail]

----------------------------------------------------------------------------
(* The Last-Error slot.                                                    *)

Call(t, op, arg, path, null, h, s, d, err) ==
    [t |-> t, op |-> op, arg |-> arg, path |-> path, null |-> null,
     h |-> h, s |-> s, d |-> d, err |-> err, from |-> "none", due |-> NULL]

\* A faulty LLVMRustSetLastError: one slot shared by every thread.
SetLastError_Shared(t, Err) ==
    LastError' = [u \in Threads |-> Err]

\* A faulty LLVMRustSetLastError: the message is lost.
SetLastError_Drop(t, Err) ==
    LastError' = LastError

\* LLVMRustSetLastError: free the unread message, keep a copy of Err.
LLVMRustSetLastError(t, Err) ==
    LastError' = [LastError EXCEPT ![t] = Err]

\* A call by thread t that failed with msg; recorded tells whether the code
\* passed msg to LLVMRustSetLastError.
Failed(t, op, msg, recorded) ==
    /\ fail' = [fail EXCEPT ![t] =
                  [op |-> op, msg |-> msg,
                   rec |-> IF recorded THEN msg ELSE fail[t].rec]]
    /\ IF recorded THEN LLVMRustSetLastError(t, msg) ELSE UNCHANGED LastError

Succeeded == UNCHANGED <<LastError, fail>>

\* A faulty LLVMRustGetLastError: the slot keeps the message it handed out.
GetLastError_NoClear(t) ==
    /\ last' = [Call(t, "GetLastError", 0, "", LastError[t] = NULL, 0,
                     LastError[t], <<>>, NULL)
                    EXCEPT !.from = fail[t].op, !.due = fail[t].msg]
    /\ fail' = [fail EXCEPT ![t] = WasRead]
    /\ UNCHANGED <<irvars, dvars, llvmMinor, LastError, fs, archives, iters, children,
                   writes, wrote>>

\* LLVMRustGetLastError: hand the message to the caller and empty the slot.
LLVMRustGetLastError(t) ==
    /\ last' = [Call(t, "GetLastError", 0, "", LastError[t] = NULL, 0,
                     LastError[t], <<>>, NULL)
                    EXCEPT !.from = fail[t].op, !.due = fail[t].msg]
    /\ LastError' = [LastError EXCEPT ![t] = NULL]
    /\ fail' = [fail EXCEPT ![t] = WasRead]
    /\ UNCHANGED <<irvars, dvars, llvmMinor, fs, archives, iters, children, writes, wrote>>

\* MemoryBuffer::getFile.
GetFile(path) ==
    IF fs[path] = NoFile THEN [ok |-> FALSE, buf |-> <<>>, msg |-> ENOENT]
    ELSE [ok |-> TRUE, buf |-> fs[path], msg |-> NULL]

LLVMRustCreateMemoryBufferWithContentsOfFile(t, Path) ==
    LET BufOr == GetFile(Path)
    IN /\ IF ~BufOr.ok
          THEN /\ Failed(t, "CreateMemoryBuffer", BufOr.msg, TRUE)
               /\ last' = Call(t, "CreateMemoryBuffer", 0, "", TRUE, 0, "",
                               <<>>, BufOr.msg)
          ELSE /\ Succeeded
               /\ last' = Call(t, "CreateMemoryBuffer", 0, "", FALSE, 1, "",
                               <<>>, NULL)
       /\ UNCHANGED <<irvars, dvars, llvmMinor, fs, archives, iters, children, writes, wrote>>

----------------------------------------------------------------------------
(* Reading archives.  Handles are slots of the pools; the caller keeps to  *)
(* the lifetimes: it frees an object once and only when nothing it handed  *)
(* out still refers to it.                                                 *)

Live(pool) == {i \in DOMAIN pool : pool[i].live}
Free(pool) == {i \in DOMAIN pool : ~pool[i].live}
FirstFree(pool) == CHOOSE i \in Free(pool) : \A j \in Free(pool) : i <= j

LLVMRustOpenArchive(t, path) ==
    LET buf_or == GetFile(path)
        archive_or == ArchiveCreate(buf_or.buf, llvmMinor)
    IN /\ IF ~buf_or.ok
          THEN /\ Failed(t, "OpenArchive", buf_or.msg, TRUE)
               /\ last' = Call(t, "OpenArchive", 0, path, TRUE, NullHandle, "",
                               <<>>, buf_or.msg)
               /\ UNCHANGED archives
          ELSE IF ~archive_or.ok
          THEN /\ Failed(t, "OpenArchive", archive_or.msg, TRUE)
               /\ last' = Call(t, "OpenArchive", 0, path, TRUE, NullHandle, "",
                               <<>>, archive_or.msg)
               /\ UNCHANGED archives
          ELSE /\ Free(archives) # {}
               /\ archives' = [archives EXCEPT ![FirstFree(archives)] =
                                [live |-> TRUE,
                                 thin |-> archive_or.thin,
                                 kids |-> archive_or.kids,
                                 src |-> IF path \in DstPaths
                                         THEN wrote[path]
                                         ELSE NotWritten]]
               /\ Succeeded
               /\ last' = Call(t, "OpenArchive", 0, path, FALSE,
                               FirstFree(archives), "", <<>>, NULL)
       /\ UNCHANGED <<irvars, dvars, llvmMinor, fs, iters, children, writes, wrote>>

LLVMRustDestroyArchive(t, ar) ==
    /\ ar \in Live(archives)
    /\ \A i \in Live(iters) : iters[i].ar # ar
    /\ \A c \in Live(children) : children[c].ar # ar
    /\ archives' = [archives EXCEPT ![ar] = NoArchive]
    /\ last' = Call(t, "DestroyArchive", ar, "", FALSE, 0, "", <<>>, NULL)
    /\ Succeeded
    /\ UNCHANGED <<irvars, dvars, llvmMinor, fs, iters, children, writes, wrote>>

LLVMRustArchiveIteratorNew(t, ra) ==
    /\ ra \in Live(archives)
    /\ Free(iters) # {}
    /\ iters' = [iters EXCEPT ![FirstFree(iters)] =
                  [live |-> TRUE,
                   ar |-> ra,
                   cur |-> FirstRegular(archives[ra].kids, 1),
                   end |-> Len(archives[ra].kids) + 1,
                   out |-> <<>>,
                   ended |-> FALSE]]
    /\ last' = Call(t, "ArchiveIteratorNew", ra, "", FALSE, FirstFree(iters),
                    "", <<>>, NULL)
    /\ Succeeded
    /\ UNCHANGED <<irvars, dvars, llvmMinor, fs, archives, children, writes, wrote>>

\* A faulty iterator step: the child is handed out, the cursor stays.
IteratorNext_Stuck(it) ==
    IF it.cur = it.end
    THEN [it EXCEPT !.ended = TRUE]
    ELSE [it EXCEPT !.out = Append(it.out, it.cur)]

\* The iterator after one LLVMRustArchiveIteratorNext; out and ended record
\* what the calls on it have returned so far.
IteratorNext(it) ==
    IF it.cur = it.end
    THEN [it EXCEPT !.ended = TRUE]
    ELSE [it EXCEPT !.cur = it.cur + 1, !.out = Append(it.out, it.cur)]

LLVMRustArchiveIteratorNext(t, rai) ==
    /\ rai \in Live(iters)
    /\ iters' = [iters EXCEPT ![rai] = IteratorNext(iters[rai])]
    /\ IF iters[rai].cur = iters[rai].end
       THEN /\ last' = Call(t, "ArchiveIteratorNext", rai, "", TRUE, 0, "",
                            <<>>, NULL)
            /\ UNCHANGED children
       ELSE /\ Free(children) # {}
            /\ children' = [children EXCEPT ![FirstFree(children)] =
                              [live |-> TRUE, ar |-> iters[rai].ar,
                               idx |-> iters[rai].cur]]
            /\ last' = Call(t, "ArchiveIteratorNext", rai, "", FALSE,
                            FirstFree(children), "", <<>>, NULL)
    /\ Succeeded
    /\ UNCHANGED <<irvars, dvars, llvmMinor, fs, archives, writes, wrote>>

LLVMRustArchiveChildFree(t, child) ==
    /\ child \in Live(children)
    /\ children' = [children EXCEPT ![child] = NoChild]
    /\ last' = Call(t, "ArchiveChildFree", child, "", FALSE, 0, "", <<>>, NULL)
    /\ Succeeded
    /\ UNCHANGED <<irvars, dvars, llvmMinor, fs, archives, iters, writes, wrote>>

LLVMRustArchiveIteratorFree(t, rai) ==
    /\ rai \in Live(iters)
    /\ iters' = [iters EXCEPT ![rai] = NoIter]
    /\ last' = Call(t, "ArchiveIteratorFree", rai, "", FALSE, 0, "", <<>>, NULL)
    /\ Succeeded
    /\ UNCHANGED <<irvars, dvars, llvmMinor, fs, archives, children, writes, wrote>>

Kid(c) == archives[c.ar].kids[c.idx]

LLVMRustArchiveChildName(t, child) ==
    LET name_or_err == ChildGetName(Kid(children[child]))
    IN /\ child \in Live(children)
       /\ IF ~name_or_err.ok
          THEN /\ Failed(t, "ArchiveChildName", name_or_err.msg, FALSE)
               /\ last' = Call(t, "ArchiveChildName", child, "", TRUE, 0, "",
                               <<>>, NULL)
          ELSE /\ Succeeded
               /\ last' = Call(t, "ArchiveChildName", child, "", FALSE, 0,
                               name_or_err.name, <<>>, NULL)
       /\ UNCHANGED <<irvars, dvars, llvmMinor, fs, archives, iters, children, writes, wrote>>

LLVMRustArchiveChildData(t, child) ==
    LET c == children[child]
        buf_or_err == ChildGetBuffer(archives[c.ar], Kid(c), fs)
    IN /\ child \in Live(children)
       /\ IF llvmMinor >= 7 /\ ~buf_or_err.ok
          THEN /\ Failed(t, "ArchiveChildData", buf_or_err.msg, TRUE)
               /\ last' = Call(t, "ArchiveChildData", child, "", TRUE, 0, "",
                               <<>>, buf_or_err.msg)
          ELSE /\ Succeeded
               /\ last' = Call(t, "ArchiveChildData", child, "", FALSE,
                               Len(buf_or_err.data), "", buf_or_err.data, NULL)
       /\ UNCHANGED <<irvars, dvars, llvmMinor, fs, archives, iters, children, writes, wrote>>

----------------------------------------------------------------------------
(* Writing archives.                                                       *)

\* LLVMRustArchiveMemberNew: the constructor leaves filename, name and child
\* null; child is overwritten only when one is given.
LLVMRustArchiveMemberNew(Filename, Name, child) ==
    [filename |-> Filename, name |-> Name,
     child |-> IF child.live THEN child ELSE NoChild]

\* A faulty choice of source: the stored child whenever one was given.
NewArchiveIterator_ChildFirst(Member) ==
    IF Member.child = NoChild
    THEN [isNew |-> TRUE, file |-> Member.filename, old |-> NoChild,
          name |-> Member.name]
    ELSE [isNew |-> FALSE, file |-> NULL, old |-> Member.child,
          name |-> Member.name]

\* NewArchiveIterator built from one member: the file when there is a
\* filename, the stored child otherwise.
NewArchiveIterator(Member) ==
    IF Member.filename # NULL
    THEN [isNew |-> TRUE, file |-> Member.filename, old |-> NoChild,
          name |-> Member.name]
    ELSE [isNew |-> FALSE, file |-> NULL, old |-> Member.child,
          name |-> Member.name]

\* writeArchive resolving one member to its name and payload.  An old member
\* is read with Child::getMemoryBufferRef, which asks for the child's own
\* name before its bytes.
ResolveMember(I) ==
    IF I.isNew
    THEN LET f == GetFile(I.file)
         IN IF f.ok
            THEN [ok |-> TRUE, name |-> I.name, data |-> FileData(f.buf),
                  msg |-> NULL]
            ELSE [ok |-> FALSE, name |-> I.name, data |-> <<>>, msg |-> f.msg]
    ELSE LET nm == ChildGetName(Kid(I.old))
             b == ChildGetBuffer(archives[I.old.ar], Kid(I.old), fs)
         IN IF ~nm.ok
            THEN [ok |-> FALSE, name |-> I.name, data |-> <<>>, msg |-> nm.msg]
            ELSE [ok |-> b.ok, name |-> I.name, data |-> b.data, msg |-> b.msg]

\* writeArchive: the members in the order given; the first member that cannot
\* be read fails the whole write and nothing is written.
RECURSIVE ResolveAll(_)
ResolveAll(Members) ==
    IF Members = <<>> THEN [ok |-> TRUE, ms |-> <<>>, msg |-> NULL]
    ELSE LET m == ResolveMember(Head(Members))
         IN IF ~m.ok THEN [ok |-> FALSE, ms |-> <<>>, msg |-> m.msg]
            ELSE LET rest == ResolveAll(Tail(Members))
                 IN IF ~rest.ok THEN rest
                    ELSE [ok |-> TRUE,
                          ms |-> <<[name |-> m.name, data |-> m.data]>>
                                     \o rest.ms,
                          msg |-> NULL]

\* A faulty member vector: the members in reverse order.
BuildMembers_Reversed(NewMembers) ==
    [i \in 1..Len(NewMembers) |->
        NewArchiveIterator(NewMembers[Len(NewMembers) + 1 - i])]

\* The vector LLVMRustWriteArchive builds from NewMembers[0..NumMembers).
BuildMembers(NewMembers) ==
    [i \in 1..Len(NewMembers) |-> NewArchiveIterator(NewMembers[i])]

\* What the caller passed, member by member in the order of NewMembers: the
\* name given and the bytes of the file or child named (kept for the record
\* of the call, not used by the write).
Passed(NewMembers) ==
    [i \in 1..Len(NewMembers) |->
        LET m == ResolveMember(NewArchiveIterator(NewMembers[i]))
        IN [name |-> m.name, data |-> m.data]]

\* LLVMRustWriteArchive.  From LLVM 3.7 on the loop asserts that each member
\* has a name; the calls modelled are those whose assertions hold.  The
\* record of the call keeps the members as they were passed.
LLVMRustWriteArchive(t, Dst, NewMembers, WriteSymbtab, Kind) ==
    LET Members == BuildMembers(NewMembers)
        pair == ResolveAll(Members)
    IN /\ llvmMinor >= 7 =>
              \A i \in DOMAIN NewMembers : NewMembers[i].name # NULL
       /\ IF llvmMinor >= 7 /\ pair.ok
          THEN /\ writes < MaxWrites
               /\ writes' = writes + 1
               /\ fs' = [fs EXCEPT ![Dst] = ArchiveBytes(pair.ms, WriteSymbtab)]
               /\ wrote' = [wrote EXCEPT ![Dst] =
                              [known |-> TRUE, symtab |-> WriteSymbtab,
                               members |-> Passed(NewMembers)]]
               /\ Succeeded
               /\ last' = Call(t, "WriteArchive", 0, Dst, FALSE,
                               0, "", NewMembers, NULL)
          ELSE LET msg == IF llvmMinor >= 7 THEN pair.msg ELSE EUNSUPPORTED
               IN /\ Failed(t, "WriteArchive", msg, TRUE)
                  /\ last' = Call(t, "WriteArchive", 0, Dst, TRUE,
                                  -1, "", NewMembers, msg)
                  /\ UNCHANGED <<fs, writes, wrote>>
       /\ UNCHANGED <<irvars, dvars, llvmMinor, archives, iters, children>>

\* The members a caller can make with LLVMRustArchiveMemberNew: from a file,
\* from a child it holds, or from both, and one it gave no name.
LiveChildren == {children[c] : c \in Live(children)}

MemberChoices ==
    {LLVMRustArchiveMemberNew(f, "m1", NoChild) : f \in MemberFiles}
    \cup {LLVMRustArchiveMemberNew(NULL, "m2", c) : c \in LiveChildren}
    \cup {LLVMRustArchiveMemberNew(f, "m3", c) :
              f \in MemberFiles, c \in LiveChildren}
    \cup {LLVMRustArchiveMemberNew("x.o", NULL, NoChild)}

MemberArrays == UNION {[1..k -> MemberChoices] : k \in 0..MaxMembers}

----------------------------------------------------------------------------
(* The LLVM wrapper: caller enums and their translation.                   *)

MajorVersions == {8, 9, 10, 11}

\* A value of an enum's range that names none of its enumerators, for the
\* enums whose numbering is declared outside this repository.
OtherValue == "<other>"

\* A caller enum argument: the family it belongs to and the value passed.
Arg(family, v) == [family |-> family, v |-> v]

\* What a translator hands back: the backend value, or the reason it gave to
\* report_fatal_error.
Translated(v) == [ok |-> TRUE, v |-> v, reason |-> NULL]
Fatal(Reason) == [ok |-> FALSE, v |-> NULL, reason |-> Reason]

\* A faulty translation: acquire-release is weakened to acquire.
fromRust_AtomicOrdering_Weakened(Ordering) ==
    CASE Ordering = "LLVMAtomicOrderingNotAtomic" ->
             Translated("AtomicOrdering::NotAtomic")
      [] Ordering = "LLVMAtomicOrderingUnordered" ->
             Translated("AtomicOrdering::Unordered")
      [] Ordering = "LLVMAtomicOrderingMonotonic" ->
             Translated("AtomicOrdering::Monotonic")
      [] Ordering \in {"LLVMAtomicOrderingAcquire",
                       "LLVMAtomicOrderingAcquireRelease"} ->
             Translated("AtomicOrdering::Acquire")
      [] Ordering = "LLVMAtomicOrderingRelease" ->
             Translated("AtomicOrdering::Release")
      [] Ordering = "LLVMAtomicOrderingSequentiallyConsistent" ->
             Translated("AtomicOrdering::SequentiallyConsistent")
      [] OTHER -> Fatal("Invalid LLVMAtomicOrdering value!")

\* fromRust(LLVMAtomicOrdering).
fromRust_AtomicOrdering(Ordering) ==
    CASE Ordering = "LLVMAtomicOrderingNotAtomic" ->
             Translated("AtomicOrdering::NotAtomic")
      [] Ordering = "LLVMAtomicOrderingUnordered" ->
             Translated("AtomicOrdering::Unordered")
      [] Ordering = "LLVMAtomicOrderingMonotonic" ->
             Translated("AtomicOrdering::Monotonic")
      [] Ordering = "LLVMAtomicOrderingAcquire" ->
             Translated("AtomicOrdering::Acquire")
      [] Ordering = "LLVMAtomicOrderingRelease" ->
             Translated("AtomicOrdering::Release")
      [] Ordering = "LLVMAtomicOrderingAcquireRelease" ->
             Translated("AtomicOrdering::AcquireRelease")
      [] Ordering = "LLVMAtomicOrderingSequentiallyConsistent" ->
             Translated("AtomicOrdering::SequentiallyConsistent")
      [] OTHER -> Fatal("Invalid LLVMAtomicOrdering value!")

\* The cases of the switch in fromRust(LLVMRustAttribute): enumerator and the
\* backend attribute kind it returns.
AttrKind ==
    [AlwaysInline |-> "Attribute::AlwaysInline",
     ByVal |-> "Attribute::ByVal",
     Cold |-> "Attribute::Cold",
     InlineHint |-> "Attribute::InlineHint",
     MinSize |-> "Attribute::MinSize",
     Naked |-> "Attribute::Naked",
     NoAlias |-> "Attribute::NoAlias",
     NoCapture |-> "Attribute::NoCapture",
     NoInline |-> "Attribute::NoInline",
     NonNull |-> "Attribute::NonNull",
     NoRedZone |-> "Attribute::NoRedZone",
     NoReturn |-> "Attribute::NoReturn",
     NoUnwind |-> "Attribute::NoUnwind",
     OptimizeForSize |-> "Attribute::OptimizeForSize",
     ReadOnly |-> "Attribute::ReadOnly",
     SExt |-> "Attribute::SExt",
     StructRet |-> "Attribute::StructRet",
     UWTable |-> "Attribute::UWTable",
     ZExt |-> "Attribute::ZExt",
     InReg |-> "Attribute::InReg",
     SanitizeThread |-> "Attribute::SanitizeThread",
     SanitizeAddress |-> "Attribute::SanitizeAddress",
     SanitizeMemory |-> "Attribute::SanitizeMemory",
     NonLazyBind |-> "Attribute::NonLazyBind",
     OptimizeNone |-> "Attribute::OptimizeNone",
     ReturnsTwice |-> "Attribute::ReturnsTwice",
     ReadNone |-> "Attribute::ReadNone",
     InaccessibleMemOnly |-> "Attribute::InaccessibleMemOnly"]

\* fromRust(LLVMRustAttribute).
fromRust_Attribute(Kind) ==
    IF Kind \in DOMAIN AttrKind THEN Translated(AttrKind[Kind])
    ELSE Fatal("bad AttributeKind")

\* fromRust(LLVMRustSynchronizationScope): SingleThread = 0, CrossThread = 1.
fromRust_SynchronizationScope(Scope) ==
    CASE Scope = 0 -> Translated("SyncScope::SingleThread")
      [] Scope = 1 -> Translated("SyncScope::System")
      [] OTHER -> Fatal("bad SynchronizationScope.")

\* fromRust(LLVMRustAsmDialect): Att = 0, Intel = 1.
fromRust_AsmDialect(Dialect) ==
    CASE Dialect = 0 -> Translated("InlineAsm::AD_ATT")
      [] Dialect = 1 -> Translated("InlineAsm::AD_Intel")
      [] OTHER -> Fatal("bad AsmDialect.")

\* fromRust(LLVMRustDebugEmissionKind): NoDebug = 0, FullDebug = 1,
\* LineTablesOnly = 2.
fromRust_DebugEmissionKind(Kind) ==
    CASE Kind = 0 -> Translated("DebugEmissionKind::NoDebug")
      [] Kind = 1 -> Translated("DebugEmissionKind::FullDebug")
      [] Kind = 2 -> Translated("DebugEmissionKind::LineTablesOnly")
      [] OTHER -> Fatal("bad DebugEmissionKind.")

\* fromRust(LLVMRustChecksumKind): None = 0, MD5 = 1, SHA1 = 2.  None is
\* translated to the empty Optional.
fromRust_ChecksumKind(Kind) ==
    CASE Kind = 0 -> Translated("None")
      [] Kind = 1 -> Translated("ChecksumKind::CSK_MD5")
      [] Kind = 2 -> Translated("ChecksumKind::CSK_SHA1")
      [] OTHER -> Fatal("bad ChecksumKind.")

\* A faulty fromRust(LLVMRustLinkage): an unknown value falls back to
\* external linkage.
fromRust_Linkage_Fallback(Linkage) ==
    CASE Linkage = 0 -> Translated("LLVMExternalLinkage")
      [] Linkage = 1 -> Translated("LLVMAvailableExternallyLinkage")
      [] Linkage = 2 -> Translated("LLVMLinkOnceAnyLinkage")
      [] Linkage = 3 -> Translated("LLVMLinkOnceODRLinkage")
      [] Linkage = 4 -> Translated("LLVMWeakAnyLinkage")
      [] Linkage = 5 -> Translated("LLVMWeakODRLinkage")
      [] Linkage = 6 -> Translated("LLVMAppendingLinkage")
      [] Linkage = 7 -> Translated("LLVMInternalLinkage")
      [] Linkage = 8 -> Translated("LLVMPrivateLinkage")
      [] Linkage = 9 -> Translated("LLVMExternalWeakLinkage")
      [] Linkage = 10 -> Translated("LLVMCommonLinkage")
      [] OTHER -> Translated("LLVMExternalLinkage")

\* fromRust(LLVMRustLinkage).
fromRust_Linkage(Linkage) ==
    CASE Linkage = 0 -> Translated("LLVMExternalLinkage")
      [] Linkage = 1 -> Translated("LLVMAvailableExternallyLinkage")
      [] Linkage = 2 -> Translated("LLVMLinkOnceAnyLinkage")
      [] Linkage = 3 -> Translated("LLVMLinkOnceODRLinkage")
      [] Linkage = 4 -> Translated("LLVMWeakAnyLinkage")
      [] Linkage = 5 -> Translated("LLVMWeakODRLinkage")
      [] Linkage = 6 -> Translated("LLVMAppendingLinkage")
      [] Linkage = 7 -> Translated("LLVMInternalLinkage")
      [] Linkage = 8 -> Translated("LLVMPrivateLinkage")
      [] Linkage = 9 -> Translated("LLVMExternalWeakLinkage")
      [] Linkage = 10 -> Translated("LLVMCommonLinkage")
      [] OTHER -> Fatal("Invalid LLVMRustLinkage value!")

\* A faulty reading: the common linkage is read back as the external one.
toRust_Linkage_CommonAsExternal(Linkage) ==
    CASE Linkage \in {"LLVMExternalLinkage", "LLVMCommonLinkage"} ->
             Translated(0)
      [] Linkage = "LLVMAvailableExternallyLinkage" -> Translated(1)
      [] Linkage = "LLVMLinkOnceAnyLinkage" -> Translated(2)
      [] Linkage = "LLVMLinkOnceODRLinkage" -> Translated(3)
      [] Linkage = "LLVMWeakAnyLinkage" -> Translated(4)
      [] Linkage = "LLVMWeakODRLinkage" -> Translated(5)
      [] Linkage = "LLVMAppendingLinkage" -> Translated(6)
      [] Linkage = "LLVMInternalLinkage" -> Translated(7)
      [] Linkage = "LLVMPrivateLinkage" -> Translated(8)
      [] Linkage = "LLVMExternalWeakLinkage" -> Translated(9)
      [] OTHER -> Fatal("Invalid LLVMRustLinkage value!")

\* toRust(LLVMLinkage).
toRust_Linkage(Linkage) ==
    CASE Linkage = "LLVMExternalLinkage" -> Translated(0)
      [] Linkage = "LLVMAvailableExternallyLinkage" -> Translated(1)
      [] Linkage = "LLVMLinkOnceAnyLinkage" -> Translated(2)
      [] Linkage = "LLVMLinkOnceODRLinkage" -> Translated(3)
      [] Linkage = "LLVMWeakAnyLinkage" -> Translated(4)
      [] Linkage = "LLVMWeakODRLinkage" -> Translated(5)
      [] Linkage = "LLVMAppendingLinkage" -> Translated(6)
      [] Linkage = "LLVMInternalLinkage" -> Translated(7)
      [] Linkage = "LLVMPrivateLinkage" -> Translated(8)
      [] Linkage = "LLVMExternalWeakLinkage" -> Translated(9)
      [] Linkage = "LLVMCommonLinkage" -> Translated(10)
      [] OTHER -> Fatal("Invalid LLVMRustLinkage value!")

\* fromRust(LLVMRustVisibility).
fromRust_Visibility(Vis) ==
    CASE Vis = 0 -> Translated("LLVMDefaultVisibility")
      [] Vis = 1 -> Translated("LLVMHiddenVisibility")
      [] Vis = 2 -> Translated("LLVMProtectedVisibility")
      [] OTHER -> Fatal("Invalid LLVMRustVisibility value!")

\* toRust(LLVMVisibility).
toRust_Visibility(Vis) ==
    CASE Vis = "LLVMDefaultVisibility" -> Translated(0)
      [] Vis = "LLVMHiddenVisibility" -> Translated(1)
      [] Vis = "LLVMProtectedVisibility" -> Translated(2)
      [] OTHER -> Fatal("Invalid LLVMRustVisibility value!")

\* The enumerators each caller enum family declares.
Enumerators ==
    [AtomicOrdering |-> {"LLVMAtomicOrderingNotAtomic",
                         "LLVMAtomicOrderingUnordered",
                         "LLVMAtomicOrderingMonotonic",
                         "LLVMAtomicOrderingAcquire",
                         "LLVMAtomicOrderingRelease",
                         "LLVMAtomicOrderingAcquireRelease",
                         "LLVMAtomicOrderingSequentiallyConsistent"},
     Attribute |-> DOMAIN AttrKind,
     SynchronizationScope |-> 0..1,
     AsmDialect |-> 0..1,
     DebugEmissionKind |-> 0..2,
     ChecksumKind |-> 0..2,
     Linkage |-> 0..10,
     Visibility |-> 0..2]

Families == DOMAIN Enumerators

\* The reason each family's translator reports for a value it does not know.
BadValue ==
    [AtomicOrdering |-> "Invalid LLVMAtomicOrdering value!",
     Attribute |-> "bad AttributeKind",
     SynchronizationScope |-> "bad SynchronizationScope.",
     AsmDialect |-> "bad AsmDialect.",
     DebugEmissionKind |-> "bad DebugEmissionKind.",
     ChecksumKind |-> "bad ChecksumKind.",
     Linkage |-> "Invalid LLVMRustLinkage value!",
     Visibility |-> "Invalid LLVMRustVisibility value!"]

\* Values a caller can pass that name no enumerator of the family.
Undeclared ==
    [AtomicOrdering |-> {OtherValue},
     Attribute |-> {OtherValue},
     SynchronizationScope |-> {2},
     AsmDialect |-> {2},
     DebugEmissionKind |-> {3},
     ChecksumKind |-> {3},
     Linkage |-> {11},
     Visibility |-> {3}]

\* The attribute kinds the modelled caller puts on a function.
AttrInputs == {"AlwaysInline", "NoReturn", "InaccessibleMemOnly"}

\* Every value the caller passes for a family.
Inputs(family) ==
    (IF family = "Attribute" THEN AttrInputs ELSE Enumerators[family])
        \cup Undeclared[family]

\* The argument, if it is of an enum family, names one of its enumerators.
Declared(arg) ==
    arg.family \in Families => arg.v \in Enumerators[arg.family]

----------------------------------------------------------------------------
(* The fatal-error channel.                                                *)

\* One thing the terminating process did: wrote text to std::cerr, ran the
\* backend's interrupt handlers, or exited with a code.
Did(ev, text, code) == [ev |-> ev, text |-> text, code |-> code]

\* A faulty handler: it exits before the interrupt handlers have run.
FatalErrorHandler_ExitFirst(Reason) ==
    /\ log' = log \o <<Did("cerr", <<"LLVM ERROR: ", Reason>>, 0),
                       Did("exit", <<>>, 101)>>
    /\ proc' = "exited"

\* FatalErrorHandler: report, run the cleanup LLVM would run, exit(101).
FatalErrorHandler(Reason) ==
    /\ log' = log \o <<Did("cerr", <<"LLVM ERROR: ", Reason>>, 0),
                       Did("RunInterruptHandlers", <<>>, 0),
                       Did("exit", <<>>, 101)>>
    /\ proc' = "exited"

\* The error handling the backend does when no handler is installed: the
\* same report and cleanup, and exit(1).
DefaultErrorHandler(Reason) ==
    /\ log' = log \o <<Did("cerr", <<"LLVM ERROR: ", Reason>>, 0),
                       Did("RunInterruptHandlers", <<>>, 0),
                       Did("exit", <<>>, 1)>>
    /\ proc' = "exited"

\* report_fatal_error: call the installed handler, which does not return.
report_fatal_error(Reason) ==
    IF handler = "FatalErrorHandler" THEN FatalErrorHandler(Reason)
    ELSE DefaultErrorHandler(Reason)

\* The record of a call into the wrapper: its caller enum arguments, whether
\* control came back to the caller, what it returned, and the reason of the
\* fatal error it ended in.
BCall(op, args, returned, ret, reason) ==
    [op |-> op, args |-> args, returned |-> returned, ret |-> ret,
     reason |-> reason]

NoBCall == BCall("none", <<>>, TRUE, NULL, NULL)

\* The call returns ret to its caller.
Returns(op, args, ret) ==
    /\ bcall' = BCall(op, args, TRUE, ret, NULL)
    /\ UNCHANGED <<proc, log>>

\* The call ends in report_fatal_error(Reason).
Aborts(op, args, Reason) ==
    /\ bcall' = BCall(op, args, FALSE, NULL, Reason)
    /\ report_fatal_error(Reason)

\* LLVMRustInstallFatalErrorHandler; the backend takes one handler.
LLVMRustInstallFatalErrorHandler ==
    /\ proc = "running"
    /\ handler = "none"
    /\ handler' = "FatalErrorHandler"
    /\ Returns("InstallFatalErrorHandler", <<>>, NULL)
    /\ UNCHANGED <<avars, dvars, llvmMajor, module, node>>

----------------------------------------------------------------------------
(* Values, instructions and metadata nodes.  A node has a kind, the        *)
(* backend values it carries (vals), and the caller enum arguments those   *)
(* values were translated from (from).                                     *)

Node(kind, vals, from) == [kind |-> kind, vals |-> vals, from |-> from]

NoNode == Node("none", <<>>, {})

\* The functions of a module, by name: the type of each and its attributes.
Names == {"f", "g"}
FunctionTys == {"void ()", "i32 ()"}
Function(ty, attrs) == [ty |-> ty, attrs |-> attrs]
NoFunction == Function(NULL, {})
NoModule == [n \in Names |-> NoFunction]

\* The places of an attribute list: the function itself (~0U, written as the
\* int of the same bits) and its parameters from 1 on.
FunctionIndex == 0 - 1
Indices == {FunctionIndex, 1}

\* An attribute in a builder: its kind, its integer or string or type value,
\* and the caller enumerator its kind was translated from, if any.
AttrOf(kind, n, s, from) == [kind |-> kind, n |-> n, s |-> s, from |-> from]

\* An attribute of a builder, placed at Index.
At(Index, b) ==
    [index |-> Index, kind |-> b.kind, n |-> b.n, s |-> b.s, from |-> b.from]

\* AttributeList::addAttributes(Index, B).  The modelled caller gives every
\* kind one value, so no attribute of B meets one of its kind with another
\* value at Index.
addAttributes(attrs, Index, B) == attrs \cup {At(Index, b) : b \in B}

\* AttributeList::removeAttributes(Index, B): the kinds of B are removed at
\* Index.
removeAttributes(attrs, Index, B) ==
    {a \in attrs : ~(a.index = Index /\ \E b \in B : b.kind = a.kind)}

\* The number of attributes the modelled caller puts on the functions of a
\* module, and the number the module holds.
MaxFnAttrs == 2
NumFnAttrs ==
    Cardinality({na \in Names \X UNION {module[m].attrs : m \in Names} :
                    na[2] \in module[na[1]].attrs})

\* No call into the LLVM wrapper has been made.
IRIdle ==
    /\ handler = "none"
    /\ proc = "running"
    /\ log = <<>>
    /\ node = NoNode
    /\ module = NoModule
    /\ bcall = NoBCall

\* No DIBuilder: none was created, or the one created was deleted.
NoBuilder == [live |-> FALSE, finalized |-> 0]

\* Constants: an integer of a bit width with its bits as an unsigned number,
\* a floating-point number with its bit pattern, and an aggregate.
ConstantInt(bits, raw) == [kind |-> "ConstantInt", bits |-> bits, raw |-> raw]

ConstantFP(raw) == [kind |-> "ConstantFP", bits |-> 32, raw |-> raw]

ConstantStruct == [kind |-> "ConstantStruct", bits |-> 0, raw |-> 0]

\* The null value reference: no initializer, no discriminant.
NullValue == [kind |-> "none", bits |-> 0, raw |-> 0]

\* A global variable with the initializer init and the "dbg" metadata dbg.
Global(init, dbg) == [kind |-> "GlobalVariable", init |-> init, dbg |-> dbg]

\* No out-parameter has been handed to the wrapper.
NoOut == [by |-> "none"]

\* No diagnostic has been reported.
NoDiagnostic == [kind |-> "none"]

\* The addresses of the blocks malloc hands out, and the heap with every
\* block free.
Addresses == {"0x10", "0x20", "0x30"}
NoHeap ==
    [p \in Addresses |->
        [state |-> "free", msg |-> NULL, caller |-> FALSE, ret |-> NULL]]

\* No debug-info call has been made and nothing has been executed.
DbgIdle ==
    /\ mem = 0
    /\ dibuilder = NoBuilder
    /\ gv = Global(NullValue, NoNode)
    /\ elems = <<>>
    /\ composite = NoNode
    /\ out = NoOut
    /\ di = NoDiagnostic
    /\ heap = NoHeap
    /\ pending = [t \in Threads |-> NULL]

\* LLVMRustGetOrInsertFunction, Module::getOrInsertFunction: a function of
\* that name is added when the module has none; the one it has is returned
\* when its type is FunctionTy, and a bitcast of it to FunctionTy otherwise.
LLVMRustGetOrInsertFunction(Name, FunctionTy) ==
    LET args == <<Arg("Name", Name), Arg("FunctionTy", FunctionTy)>>
        F == module[Name]
    IN /\ proc = "running"
       /\ IF F = NoFunction
          THEN /\ module' = [module EXCEPT ![Name] = Function(FunctionTy, {})]
               /\ node' = Node("function", <<Name>>, {})
               /\ Returns("GetOrInsertFunction", args, "function")
          ELSE IF F.ty # FunctionTy
          THEN /\ node' = Node("bitcast", <<Name, FunctionTy>>, {})
               /\ Returns("GetOrInsertFunction", args, "bitcast")
               /\ UNCHANGED module
          ELSE /\ node' = Node("function", <<Name>>, {})
               /\ Returns("GetOrInsertFunction", args, "function")
               /\ UNCHANGED module
       /\ UNCHANGED <<avars, dvars, llvmMajor, handler>>

\* LLVMRustInsertPrivateGlobal: a global variable with private linkage.
LLVMRustInsertPrivateGlobal ==
    /\ proc = "running"
    /\ node' = Node("global", <<"LLVMPrivateLinkage", "LLVMDefaultVisibility">>,
                    {})
    /\ Returns("InsertPrivateGlobal", <<>>, "global")
    /\ UNCHANGED <<avars, dvars, llvmMajor, module, handler>>

\* The caller arguments a node's values still come from once family's value
\* has been replaced by arg.
Replace(from, arg) == {a \in from : a.family # arg.family} \cup {arg}

\* The caller's handle Fn is a function of the module: unwrap<Function>.
IsFunction(Fn) == Fn.kind = "function"

\* The attributes of the function Fn refers to become attrs.
SetAttributes(Fn, attrs) ==
    module' = [module EXCEPT ![Fn.vals[1]].attrs = attrs]

\* LLVMRustAddFunctionAttribute on the function Fn (node).
LLVMRustAddFunctionAttribute(Index, RustAttr) ==
    LET Fn == node
        args == <<Arg("Index", Index), Arg("Attribute", RustAttr)>>
        Attr == fromRust_Attribute(RustAttr)
        B == {AttrOf(Attr.v, 0, "", RustAttr)}
    IN /\ proc = "running"
       /\ IsFunction(Fn)
       /\ IF Attr.ok
          THEN /\ NumFnAttrs < MaxFnAttrs
               /\ SetAttributes(Fn, addAttributes(module[Fn.vals[1]].attrs,
                                                  Index, B))
               /\ Returns("AddFunctionAttribute", args, NULL)
          ELSE /\ Aborts("AddFunctionAttribute", args, Attr.reason)
               /\ UNCHANGED module
       /\ UNCHANGED <<avars, dvars, llvmMajor, handler, node>>

\* The Add...Attr functions that take no caller enum: the builder B is added
\* at Index to the attributes of the function Fn (node).
AddAttr(op, args, Index, B) ==
    LET Fn == node
    IN /\ proc = "running"
       /\ IsFunction(Fn)
       /\ NumFnAttrs < MaxFnAttrs
       /\ SetAttributes(Fn, addAttributes(module[Fn.vals[1]].attrs, Index, B))
       /\ Returns(op, args, NULL)
       /\ UNCHANGED <<avars, dvars, llvmMajor, handler, node>>

\* LLVMRustAddAlignmentAttr: AttrBuilder::addAlignmentAttr adds nothing for
\* an alignment of zero.
LLVMRustAddAlignmentAttr(Index, NumBytes) ==
    AddAttr("AddAlignmentAttr", <<Arg("Index", Index), Arg("Bytes", NumBytes)>>,
            Index,
            IF NumBytes = 0 THEN {}
            ELSE {AttrOf("Attribute::Alignment", NumBytes, "", NULL)})

\* LLVMRustAddDereferenceableAttr: nothing is added for zero bytes.
LLVMRustAddDereferenceableAttr(Index, NumBytes) ==
    AddAttr("AddDereferenceableAttr",
            <<Arg("Index", Index), Arg("Bytes", NumBytes)>>, Index,
            IF NumBytes = 0 THEN {}
            ELSE {AttrOf("Attribute::Dereferenceable", NumBytes, "", NULL)})

\* LLVMRustAddDereferenceableOrNullAttr: nothing is added for zero bytes.
LLVMRustAddDereferenceableOrNullAttr(Index, NumBytes) ==
    AddAttr("AddDereferenceableOrNullAttr",
            <<Arg("Index", Index), Arg("Bytes", NumBytes)>>, Index,
            IF NumBytes = 0 THEN {}
            ELSE {AttrOf("Attribute::DereferenceableOrNull", NumBytes, "", NULL)})

\* LLVMRustAddByValAttr: byval with the type from LLVM 9 on, plain byval
\* before.
LLVMRustAddByValAttr(Index, Ty) ==
    AddAttr("AddByValAttr", <<Arg("Index", Index), Arg("Ty", Ty)>>, Index,
            IF llvmMajor >= 9 THEN {AttrOf("Attribute::ByVal", 0, Ty, NULL)}
            ELSE {AttrOf("Attribute::ByVal", 0, "", NULL)})

\* LLVMRustAddFunctionAttrStringValue: the string attribute Name = Value.
LLVMRustAddFunctionAttrStringValue(Index, Name, Value) ==
    AddAttr("AddFunctionAttrStringValue",
            <<Arg("Index", Index), Arg("Name", Name), Arg("Value", Value)>>,
            Index, {AttrOf(Name, 0, Value, NULL)})

\* LLVMRustRemoveFunctionAttributes on the function Fn (node): the attribute
\* of the translated kind is removed at Index and nowhere else.
LLVMRustRemoveFunctionAttributes(Index, RustAttr) ==
    LET F == node
        args == <<Arg("Index", Index), Arg("Attribute", RustAttr)>>
        Attr == fromRust_Attribute(RustAttr)
        B == {AttrOf(Attr.v, 0, "", RustAttr)}
        PAL == module[F.vals[1]].attrs
        PALNew == removeAttributes(PAL, Index, B)
    IN /\ proc = "running"
       /\ IsFunction(F)
       /\ IF Attr.ok
          THEN /\ SetAttributes(F, PALNew)
               /\ Returns("RemoveFunctionAttributes", args, NULL)
          ELSE /\ Aborts("RemoveFunctionAttributes", args, Attr.reason)
               /\ UNCHANGED module
       /\ UNCHANGED <<avars, dvars, llvmMajor, handler, node>>

\* LLVMRustBuildAtomicLoad: the load is created and inserted first, then
\* made atomic with the translated ordering.
LLVMRustBuildAtomicLoad(Order) ==
    LET args == <<Arg("AtomicOrdering", Order)>>
        LI == Node("load", <<"AtomicOrdering::NotAtomic">>, {})
        o == fromRust_AtomicOrdering(Order)
    IN /\ proc = "running"
       /\ IF o.ok
          THEN /\ node' = Node("load", <<o.v>>, {args[1]})
               /\ Returns("BuildAtomicLoad", args, "load")
          ELSE /\ node' = LI
               /\ Aborts("BuildAtomicLoad", args, o.reason)
       /\ UNCHANGED <<avars, dvars, llvmMajor, module, handler>>

\* LLVMRustBuildAtomicStore: as the load.
LLVMRustBuildAtomicStore(Order) ==
    LET args == <<Arg("AtomicOrdering", Order)>>
        SI == Node("store", <<"AtomicOrdering::NotAtomic">>, {})
        o == fromRust_AtomicOrdering(Order)
    IN /\ proc = "running"
       /\ IF o.ok
          THEN /\ node' = Node("store", <<o.v>>, {args[1]})
               /\ Returns("BuildAtomicStore", args, "store")
          ELSE /\ node' = SI
               /\ Aborts("BuildAtomicStore", args, o.reason)
       /\ UNCHANGED <<avars, dvars, llvmMajor, module, handler>>

\* A faulty builder: the instruction is weak whatever the caller passed.
BuildAtomicCmpXchg_AlwaysWeak(Order, FailureOrder, Weak) ==
    LET args == <<Arg("AtomicOrdering", Order),
                  Arg("AtomicOrdering", FailureOrder), Arg("Weak", Weak)>>
        o == fromRust_AtomicOrdering(Order)
        f == fromRust_AtomicOrdering(FailureOrder)
    IN /\ proc = "running"
       /\ IF o.ok /\ f.ok
          THEN /\ node' = Node("cmpxchg", <<o.v, f.v, TRUE>>,
                               {args[1], args[2]})
               /\ Returns("BuildAtomicCmpXchg", args, "cmpxchg")
          ELSE /\ Aborts("BuildAtomicCmpXchg", args,
                         IF o.ok THEN f.reason ELSE o.reason)
               /\ UNCHANGED node
       /\ UNCHANGED <<avars, dvars, llvmMajor, module, handler>>

\* The values of an LLVMBool (int) the caller passes.
LLVMBools == {0, 1, 2}

\* LLVMRustBuildAtomicCmpXchg: both orderings are translated before the
\* instruction is created; setWeak takes the LLVMBool as a bool.
LLVMRustBuildAtomicCmpXchg(Order, FailureOrder, Weak) ==
    LET args == <<Arg("AtomicOrdering", Order),
                  Arg("AtomicOrdering", FailureOrder), Arg("Weak", Weak)>>
        o == fromRust_AtomicOrdering(Order)
        f == fromRust_AtomicOrdering(FailureOrder)
    IN /\ proc = "running"
       /\ IF o.ok /\ f.ok
          THEN /\ node' = Node("cmpxchg", <<o.v, f.v, Weak # 0>>,
                               {args[1], args[2]})
               /\ Returns("BuildAtomicCmpXchg", args, "cmpxchg")
          ELSE /\ Aborts("BuildAtomicCmpXchg", args,
                         IF o.ok THEN f.reason ELSE o.reason)
               /\ UNCHANGED node
       /\ UNCHANGED <<avars, dvars, llvmMajor, module, handler>>

\* LLVMRustBuildAtomicFence: the two arguments are translated in either
\* order; the first that fails names the reason.
LLVMRustBuildAtomicFence(Order, Scope) ==
    LET args == <<Arg("AtomicOrdering", Order),
                  Arg("SynchronizationScope", Scope)>>
        o == fromRust_AtomicOrdering(Order)
        s == fromRust_SynchronizationScope(Scope)
        reasons == {r.reason : r \in {x \in {o, s} : ~x.ok}}
    IN /\ proc = "running"
       /\ IF o.ok /\ s.ok
          THEN /\ node' = Node("fence", <<o.v, s.v>>, {args[1], args[2]})
               /\ Returns("BuildAtomicFence", args, "fence")
          ELSE /\ \E Reason \in reasons :
                      Aborts("BuildAtomicFence", args, Reason)
               /\ UNCHANGED node
       /\ UNCHANGED <<avars, dvars, llvmMajor, module, handler>>

\* LLVMRustInlineAsm.
LLVMRustInlineAsm(HasSideEffects, IsAlignStack, Dialect) ==
    LET args == <<Arg("AsmDialect", Dialect)>>
        d == fromRust_AsmDialect(Dialect)
    IN /\ proc = "running"
       /\ IF d.ok
          THEN /\ node' = Node("inlineasm",
                               <<HasSideEffects, IsAlignStack, d.v>>,
                               {args[1]})
               /\ Returns("InlineAsm", args, "inlineasm")
          ELSE /\ Aborts("InlineAsm", args, d.reason)
               /\ UNCHANGED node
       /\ UNCHANGED <<avars, dvars, llvmMajor, module, handler>>

\* LLVMRustDIBuilderCreateCompileUnit.
LLVMRustDIBuilderCreateCompileUnit(isOptimized, Kind) ==
    LET args == <<Arg("DebugEmissionKind", Kind)>>
        k == fromRust_DebugEmissionKind(Kind)
    IN /\ proc = "running"
       /\ IF k.ok
          THEN /\ node' = Node("DICompileUnit", <<isOptimized, k.v>>,
                               {args[1]})
               /\ Returns("DIBuilderCreateCompileUnit", args, "DICompileUnit")
          ELSE /\ Aborts("DIBuilderCreateCompileUnit", args, k.reason)
               /\ UNCHANGED node
       /\ UNCHANGED <<avars, dvars, llvmMajor, module, handler>>

\* LLVMRustDIBuilderCreateFile: the file carries a checksum only when the
\* translated kind is not the empty Optional.
LLVMRustDIBuilderCreateFile(CSKind, Checksum) ==
    LET args == <<Arg("ChecksumKind", CSKind)>>
        llvmCSKind == fromRust_ChecksumKind(CSKind)
        CSInfo == IF llvmCSKind.v = "None" THEN <<>>
                  ELSE <<llvmCSKind.v, Checksum>>
    IN /\ proc = "running"
       /\ IF llvmCSKind.ok
          THEN /\ node' = Node("DIFile", <<CSInfo>>, {args[1]})
               /\ Returns("DIBuilderCreateFile", args, "DIFile")
          ELSE /\ Aborts("DIBuilderCreateFile", args, llvmCSKind.reason)
               /\ UNCHANGED node
       /\ UNCHANGED <<avars, dvars, llvmMajor, module, handler>>

\* GlobalValue::isLocalLinkage.
isLocalLinkage(Linkage) ==
    Linkage \in {"LLVMInternalLinkage", "LLVMPrivateLinkage"}

\* LLVMSetLinkage, GlobalValue::setLinkage: a local linkage puts the
\* visibility back to the default one, which then comes from no caller value.
setLinkage(V, LT, arg) ==
    IF isLocalLinkage(LT)
    THEN Node("global", <<LT, "LLVMDefaultVisibility">>,
              {a \in Replace(V.from, arg) : a.family # "Visibility"})
    ELSE Node("global", <<LT, V.vals[2]>>, Replace(V.from, arg))

\* LLVMRustSetLinkage on the global V.
LLVMRustSetLinkage(RustLinkage) ==
    LET args == <<Arg("Linkage", RustLinkage)>>
        l == fromRust_Linkage(RustLinkage)
    IN /\ proc = "running"
       /\ node.kind = "global"
       /\ IF l.ok
          THEN /\ node' = setLinkage(node, l.v, args[1])
               /\ Returns("SetLinkage", args, NULL)
          ELSE /\ Aborts("SetLinkage", args, l.reason)
               /\ UNCHANGED node
       /\ UNCHANGED <<avars, dvars, llvmMajor, module, handler>>

\* LLVMRustGetLinkage on the global V.
LLVMRustGetLinkage ==
    LET l == toRust_Linkage(node.vals[1])
    IN /\ proc = "running"
       /\ node.kind = "global"
       /\ IF l.ok THEN Returns("GetLinkage", <<>>, l.v)
          ELSE Aborts("GetLinkage", <<>>, l.reason)
       /\ UNCHANGED <<avars, dvars, llvmMajor, module, handler, node>>

\* LLVMRustSetVisibility on the global V.  GlobalValue::setVisibility
\* asserts that a global of local linkage gets the default visibility; the
\* calls modelled are those whose assertion holds.
LLVMRustSetVisibility(RustVisibility) ==
    LET args == <<Arg("Visibility", RustVisibility)>>
        v == fromRust_Visibility(RustVisibility)
    IN /\ proc = "running"
       /\ node.kind = "global"
       /\ IF v.ok
          THEN /\ isLocalLinkage(node.vals[1]) =>
                      v.v = "LLVMDefaultVisibility"
               /\ node' = Node("global", <<node.vals[1], v.v>>,
                               Replace(node.from, args[1]))
               /\ Returns("SetVisibility", args, NULL)
          ELSE /\ Aborts("SetVisibility", args, v.reason)
               /\ UNCHANGED node
       /\ UNCHANGED <<avars, dvars, llvmMajor, module, handler>>

\* LLVMRustGetVisibility on the global V.
LLVMRustGetVisibility ==
    LET v == toRust_Visibility(node.vals[2])
    IN /\ proc = "running"
       /\ node.kind = "global"
       /\ IF v.ok THEN Returns("GetVisibility", <<>>, v.v)
          ELSE Aborts("GetVisibility", <<>>, v.reason)
       /\ UNCHANGED <<avars, dvars, llvmMajor, module, handler, node>>

\* The compiler building a module through the wrapper.
InitIR ==
    /\ llvmMinor = 0
    /\ ArchiveIdle
    /\ llvmMajor \in MajorVersions
    /\ IRIdle
    /\ DbgIdle

\* The caller of this specification declares one function and puts one
\* attribute on it at a time, at the function itself.
NextIR ==
    \/ LLVMRustInstallFatalErrorHandler
    \/ LLVMRustGetOrInsertFunction("f", "void ()")
    \/ LLVMRustInsertPrivateGlobal
    \/ \E a \in Inputs("Attribute") :
          /\ IsFunction(node) /\ module[node.vals[1]].attrs = {}
          /\ LLVMRustAddFunctionAttribute(FunctionIndex, a)
    \/ \E a \in Inputs("Attribute") :
          LLVMRustRemoveFunctionAttributes(FunctionIndex, a)
    \/ \E o \in Inputs("AtomicOrdering") : LLVMRustBuildAtomicLoad(o)
    \/ \E o \in Inputs("AtomicOrdering") : LLVMRustBuildAtomicStore(o)
    \/ \E o \in Inputs("AtomicOrdering"), f \in Inputs("AtomicOrdering"),
          w \in LLVMBools : LLVMRustBuildAtomicCmpXchg(o, f, w)
    \/ \E o \in Inputs("AtomicOrdering"), s \in Inputs("SynchronizationScope") :
          LLVMRustBuildAtomicFence(o, s)
    \/ \E se \in BOOLEAN, as \in BOOLEAN, d \in Inputs("AsmDialect") :
          LLVMRustInlineAsm(se, as, d)
    \/ \E opt \in BOOLEAN, k \in Inputs("DebugEmissionKind") :
          LLVMRustDIBuilderCreateCompileUnit(opt, k)
    \/ \E k \in Inputs("ChecksumKind") :
          LLVMRustDIBuilderCreateFile(k, "checksum")
    \/ \E l \in Inputs("Linkage") : LLVMRustSetLinkage(l)
    \/ LLVMRustGetLinkage
    \/ \E v \in Inputs("Visibility") : LLVMRustSetVisibility(v)
    \/ LLVMRustGetVisibility

SpecIR == InitIR /\ [][NextIR]_vars

\* The compiler declaring functions and setting their attributes: any name
\* and type, any place of the attribute list, one value for each kind.
AlignBytes == {0, 16}
DerefBytes == {0, 8}
ByValTys == {"i32"}
StringAttrs == {<<"target-cpu", "generic">>}

NextFn ==
    \/ LLVMRustInstallFatalErrorHandler
    \/ \E n \in Names, ty \in FunctionTys : LLVMRustGetOrInsertFunction(n, ty)
    \/ \E i \in Indices, a \in Inputs("Attribute") :
          LLVMRustAddFunctionAttribute(i, a)
    \/ \E i \in Indices, b \in AlignBytes : LLVMRustAddAlignmentAttr(i, b)
    \/ \E i \in Indices, b \in DerefBytes :
          LLVMRustAddDereferenceableAttr(i, b)
    \/ \E i \in Indices, b \in DerefBytes :
          LLVMRustAddDereferenceableOrNullAttr(i, b)
    \/ \E i \in Indices, ty \in ByValTys : LLVMRustAddByValAttr(i, ty)
    \/ \E i \in Indices, nv \in StringAttrs :
          LLVMRustAddFunctionAttrStringValue(i, nv[1], nv[2])
    \/ \E i \in Indices, a \in Inputs("Attribute") :
          LLVMRustRemoveFunctionAttributes(i, a)

SpecFn == InitIR /\ [][NextFn]_vars

----------------------------------------------------------------------------
(* Flag bitsets.  Caller bitsets are uint32_t values; backend flag values  *)
(* are sets of backend flag names.                                         *)

\* enum class LLVMRustDIFlags : uint32_t.
FlagZero == 0
FlagPrivate == 1
FlagProtected == 2
FlagPublic == 3
FlagFwdDecl == 2^2
FlagAppleBlock == 2^3
FlagBlockByrefStruct == 2^4
FlagVirtual == 2^5
FlagArtificial == 2^6
FlagExplicit == 2^7
FlagPrototyped == 2^8
FlagObjcClassComplete == 2^9
FlagObjectPointer == 2^10
FlagVector == 2^11
FlagStaticMember == 2^12
FlagLValueReference == 2^13
FlagRValueReference == 2^14
FlagExternalTypeRef == 2^15
FlagIntroducedVirtual == 2^18
FlagBitField == 2^19
FlagNoReturn == 2^20

\* enum class LLVMRustDISPFlags : uint32_t.
SPFlagZero == 0
SPFlagVirtual == 1
SPFlagPureVirtual == 2
SPFlagLocalToUnit == 2^2
SPFlagDefinition == 2^3
SPFlagOptimized == 2^4
SPFlagMainSubprogram == 2^5

\* visibility(F): F & 0x3, the two low bits of F.
visibility(F) == F % 4

\* virtuality(F): F & 0x3, the two low bits of F.
virtuality(F) == F % 4

\* isSet(Flags & Flag) for an enumerator Flag of one bit: that bit of Flags
\* is set.
isSet(Flags, Flag) == (Flags \div Flag) % 2 = 1

\* if (isSet(Flags & Flag)) Result |= Name.
OrIfSet(Flags, Flag, Name) == IF isSet(Flags, Flag) THEN {Name} ELSE {}

\* The tag of a local variable that is no parameter, 0x100.
DW_TAG_auto_variable == 256

\* DIBuilder::createAutoVariable and DIBuilder::createParameterVariable: a
\* local variable with its flags, the call that made it, its argument
\* number (0 for an auto variable) and its alignment (0 for a parameter).
createAutoVariable(Flags, AlignInBits, from) ==
    Node("DILocalVariable", <<Flags, "auto", 0, AlignInBits>>, {from})
createParameterVariable(ArgNo, Flags, from) ==
    Node("DILocalVariable", <<Flags, "parameter", ArgNo, 0>>, {from})

\* fromRust(LLVMRustDIFlags).
fromRust_DIFlags(Flags) ==
    (CASE visibility(Flags) = FlagPrivate -> {"DIFlags::FlagPrivate"}
       [] visibility(Flags) = FlagProtected -> {"DIFlags::FlagProtected"}
       [] visibility(Flags) = FlagPublic -> {"DIFlags::FlagPublic"}
       [] OTHER -> {})
    \cup OrIfSet(Flags, FlagFwdDecl, "DIFlags::FlagFwdDecl")
    \cup OrIfSet(Flags, FlagAppleBlock, "DIFlags::FlagAppleBlock")
    \cup (IF llvmMajor < 10
          THEN OrIfSet(Flags, FlagBlockByrefStruct,
                       "DIFlags::FlagBlockByrefStruct")
          ELSE {})
    \cup OrIfSet(Flags, FlagVirtual, "DIFlags::FlagVirtual")
    \cup OrIfSet(Flags, FlagArtificial, "DIFlags::FlagArtificial")
    \cup OrIfSet(Flags, FlagExplicit, "DIFlags::FlagExplicit")
    \cup OrIfSet(Flags, FlagPrototyped, "DIFlags::FlagPrototyped")
    \cup OrIfSet(Flags, FlagObjcClassComplete, "DIFlags::FlagObjcClassComplete")
    \cup OrIfSet(Flags, FlagObjectPointer, "DIFlags::FlagObjectPointer")
    \cup OrIfSet(Flags, FlagVector, "DIFlags::FlagVector")
    \cup OrIfSet(Flags, FlagStaticMember, "DIFlags::FlagStaticMember")
    \cup OrIfSet(Flags, FlagLValueReference, "DIFlags::FlagLValueReference")
    \cup OrIfSet(Flags, FlagRValueReference, "DIFlags::FlagRValueReference")
    \cup OrIfSet(Flags, FlagIntroducedVirtual, "DIFlags::FlagIntroducedVirtual")
    \cup OrIfSet(Flags, FlagBitField, "DIFlags::FlagBitField")
    \cup OrIfSet(Flags, FlagNoReturn, "DIFlags::FlagNoReturn")

\* A faulty translation: the entry-point flag is translated for every
\* backend version.
fromRust_DISPFlags_AllVersions(SPFlags) ==
    (CASE virtuality(SPFlags) = SPFlagVirtual -> {"DISPFlags::SPFlagVirtual"}
       [] virtuality(SPFlags) = SPFlagPureVirtual ->
              {"DISPFlags::SPFlagPureVirtual"}
       [] OTHER -> {})
    \cup OrIfSet(SPFlags, SPFlagLocalToUnit, "DISPFlags::SPFlagLocalToUnit")
    \cup OrIfSet(SPFlags, SPFlagDefinition, "DISPFlags::SPFlagDefinition")
    \cup OrIfSet(SPFlags, SPFlagOptimized, "DISPFlags::SPFlagOptimized")
    \cup OrIfSet(SPFlags, SPFlagMainSubprogram,
                 "DISPFlags::SPFlagMainSubprogram")

\* fromRust(LLVMRustDISPFlags).
fromRust_DISPFlags(SPFlags) ==
    (CASE virtuality(SPFlags) = SPFlagVirtual -> {"DISPFlags::SPFlagVirtual"}
       [] virtuality(SPFlags) = SPFlagPureVirtual ->
              {"DISPFlags::SPFlagPureVirtual"}
       [] OTHER -> {})
    \cup OrIfSet(SPFlags, SPFlagLocalToUnit, "DISPFlags::SPFlagLocalToUnit")
    \cup OrIfSet(SPFlags, SPFlagDefinition, "DISPFlags::SPFlagDefinition")
    \cup OrIfSet(SPFlags, SPFlagOptimized, "DISPFlags::SPFlagOptimized")
    \cup (IF llvmMajor >= 9
          THEN OrIfSet(SPFlags, SPFlagMainSubprogram,
                       "DISPFlags::SPFlagMainSubprogram")
          ELSE {})

\* LLVMRustDIBuilderCreateFunction: before LLVM 9 the entry point is marked
\* in the debug-info flags.  The third value of the node is the set of
\* functions the subprogram was attached to with setSubprogram.
LLVMRustDIBuilderCreateFunction(Flags, SPFlags, MaybeFn) ==
    LET args == <<Arg("DIFlags", Flags), Arg("DISPFlags", SPFlags),
                  Arg("MaybeFn", MaybeFn)>>
        llvmSPFlags == fromRust_DISPFlags(SPFlags)
        llvmFlags ==
            fromRust_DIFlags(Flags)
            \cup (IF llvmMajor < 9
                  THEN OrIfSet(SPFlags, SPFlagMainSubprogram,
                               "DIFlags::FlagMainSubprogram")
                  ELSE {})
    IN /\ proc = "running"
       /\ node' = Node("DISubprogram",
                       <<llvmFlags, llvmSPFlags,
                         IF MaybeFn # NULL THEN {MaybeFn} ELSE {}>>,
                       {args[1], args[2]})
       /\ Returns("DIBuilderCreateFunction", args, "DISubprogram")
       /\ UNCHANGED <<avars, dvars, llvmMajor, module, handler>>

\* A faulty variable: every tag from DW_TAG_auto_variable on makes an auto
\* variable.
CreateVariable_TagAtLeast(Tag, Flags, ArgNo, AlignInBits) ==
    LET args == <<Arg("DIFlags", Flags), Arg("Tag", Tag), Arg("ArgNo", ArgNo),
                  Arg("AlignInBits", AlignInBits)>>
    IN /\ proc = "running"
       /\ node' = IF Tag >= DW_TAG_auto_variable
                  THEN createAutoVariable(fromRust_DIFlags(Flags),
                                          AlignInBits, args[1])
                  ELSE createParameterVariable(ArgNo, fromRust_DIFlags(Flags),
                                               args[1])
       /\ Returns("DIBuilderCreateVariable", args, "DILocalVariable")
       /\ UNCHANGED <<avars, dvars, llvmMajor, module, handler>>

\* LLVMRustDIBuilderCreateVariable.
LLVMRustDIBuilderCreateVariable(Tag, Flags, ArgNo, AlignInBits) ==
    LET args == <<Arg("DIFlags", Flags), Arg("Tag", Tag), Arg("ArgNo", ArgNo),
                  Arg("AlignInBits", AlignInBits)>>
    IN /\ proc = "running"
       /\ node' = IF Tag = DW_TAG_auto_variable
                  THEN createAutoVariable(fromRust_DIFlags(Flags),
                                          AlignInBits, args[1])
                  ELSE createParameterVariable(ArgNo, fromRust_DIFlags(Flags),
                                               args[1])
       /\ Returns("DIBuilderCreateVariable", args, "DILocalVariable")
       /\ UNCHANGED <<avars, dvars, llvmMajor, module, handler>>

\* LLVMRustDIBuilderCreateMemberType.
LLVMRustDIBuilderCreateMemberType(Flags) ==
    LET args == <<Arg("DIFlags", Flags)>>
    IN /\ proc = "running"
       /\ node' = Node("DIDerivedType", <<fromRust_DIFlags(Flags)>>, {args[1]})
       /\ Returns("DIBuilderCreateMemberType", args, "DIDerivedType")
       /\ UNCHANGED <<avars, dvars, llvmMajor, module, handler>>

\* The bitsets the modelled caller passes.  For a member type: a visibility
\* and at most one of the bits 2 .. MaxDIBit.  For a function: the flags of a
\* prototyped one, and every subprogram bitset of the bits 0 .. MaxSPBit.
MaxDIBit == 21
MaxSPBit == 6

DIFlagInputs ==
    {v + b : v \in 0..3, b \in {0} \cup {2^k : k \in 2..MaxDIBit}}

FunctionFlagInputs == {FlagPrototyped}

SPFlagInputs == 0..(2^(MaxSPBit + 1) - 1)

\* The function a subprogram is made for: none, or the program's entry.
MaybeFns == {NULL, "@main"}

\* The tags, argument numbers and alignments the modelled caller passes for
\* a variable: any argument number with the auto tag, the one-based index of
\* the argument with any other tag.
MaxArgNo == 2
Tags == {0, DW_TAG_auto_variable - 1, DW_TAG_auto_variable,
         DW_TAG_auto_variable + 1}
ArgNos(Tag) == IF Tag = DW_TAG_auto_variable THEN 0..MaxArgNo ELSE 1..MaxArgNo
Alignments == {0, 8, 64}

NextDI ==
    \/ \E f \in FunctionFlagInputs, sp \in SPFlagInputs, fn \in MaybeFns :
          LLVMRustDIBuilderCreateFunction(f, sp, fn)
    \/ \E f \in DIFlagInputs : LLVMRustDIBuilderCreateMemberType(f)
    \/ \E t \in Tags, f \in {FlagZero, FlagArtificial} :
          \E a \in ArgNos(t), al \in Alignments :
             LLVMRustDIBuilderCreateVariable(t, f, a, al)

SpecDI == InitIR /\ [][NextDI]_vars

----------------------------------------------------------------------------

\* One compiler thread driving the archive reader and writer.
MainThread == {1}

\* The archive wrapper is built against LLVM 3.5 to 3.7.
Init ==
    /\ llvmMinor \in MinorVersions
    /\ ArchiveIdle
    /\ llvmMajor = 3
    /\ IRIdle
    /\ DbgIdle

Next ==
    \E t \in MainThread :
        \/ LLVMRustGetLastError(t)
        \/ \E p \in MemberFiles :
              LLVMRustCreateMemoryBufferWithContentsOfFile(t, p)
        \/ \E p \in Paths : LLVMRustOpenArchive(t, p)
        \/ \E ra \in Live(archives) : LLVMRustDestroyArchive(t, ra)
        \/ \E ra \in Live(archives) : LLVMRustArchiveIteratorNew(t, ra)
        \/ \E rai \in Live(iters) : LLVMRustArchiveIteratorNext(t, rai)
        \/ \E rai \in Live(iters) : LLVMRustArchiveIteratorFree(t, rai)
        \/ \E c \in Live(children) : LLVMRustArchiveChildName(t, c)
        \/ \E c \in Live(children) : LLVMRustArchiveChildData(t, c)
        \/ \E c \in Live(children) : LLVMRustArchiveChildFree(t, c)
        \/ \E d \in DstPaths, ms \in MemberArrays, st \in BOOLEAN,
              k \in ArchiveKinds : LLVMRustWriteArchive(t, d, ms, st, k)

Spec == Init /\ [][Next]_vars

\* Two compiler threads; archives are written from files only.
FileArrays ==
    {<<>>} \cup {<<LLVMRustArchiveMemberNew(f, "m1", NoChild)>> : f \in MemberFiles}

NextThreads ==
    \E t \in Threads :
        \/ LLVMRustGetLastError(t)
        \/ \E p \in MemberFiles :
              LLVMRustCreateMemoryBufferWithContentsOfFile(t, p)
        \/ \E p \in Paths : LLVMRustOpenArchive(t, p)
        \/ \E ra \in Live(archives) : LLVMRustDestroyArchive(t, ra)
        \/ \E ra \in Live(archives) : LLVMRustArchiveIteratorNew(t, ra)
        \/ \E rai \in Live(iters) : LLVMRustArchiveIteratorNext(t, rai)
        \/ \E rai \in Live(iters) : LLVMRustArchiveIteratorFree(t, rai)
        \/ \E c \in Live(children) : LLVMRustArchiveChildName(t, c)
        \/ \E c \in Live(children) : LLVMRustArchiveChildData(t, c)
        \/ \E c \in Live(children) : LLVMRustArchiveChildFree(t, c)
        \/ \E d \in DstPaths, ms \in FileArrays, k \in ArchiveKinds :
              LLVMRustWriteArchive(t, d, ms, FALSE, k)

SpecThreads == Init /\ [][NextThreads]_vars

----------------------------------------------------------------------------
(* Exception-handling pads, compare-exchange and inline-assembly checks.   *)

\* Constant::getNullValue of the token type: the token "none".
TokenNone == "token none"

\* The kinds of pad instructions.
PadKinds == {"cleanuppad", "catchpad", "catchswitch"}

\* The parent pads a caller passes: nullptr, or the pad it holds.
ParentPads == {NULL} \cup (IF node.kind \in PadKinds THEN {node.kind} ELSE {})

\* Largest argument or handler count the modelled caller passes.
MaxPadArgs == 1

\* IRBuilder::CreateCleanupPad, CreateCatchPad, CreateCatchSwitch: the pad
\* with the parent and the arguments or handler slots it was given.
CreatePad(kind, ParentPad, n) == Node(kind, <<ParentPad, n>>, {})

\* LLVMRustBuildCleanupPad.
LLVMRustBuildCleanupPad(ParentPad, ArgCount) ==
    LET Parent == IF ParentPad = NULL THEN TokenNone ELSE ParentPad
    IN /\ proc = "running"
       /\ node' = CreatePad("cleanuppad", Parent, ArgCount)
       /\ Returns("BuildCleanupPad", <<Arg("ParentPad", ParentPad)>>,
                  "cleanuppad")
       /\ UNCHANGED <<avars, dvars, llvmMajor, module, handler>>

\* LLVMRustBuildCatchPad: the parent goes to the builder as it came.  With a
\* null parent the backend either stops at its assertion or makes a pad whose
\* parent operand is null.
LLVMRustBuildCatchPad(ParentPad, ArgCount) ==
    LET args == <<Arg("ParentPad", ParentPad)>>
    IN /\ proc = "running"
       /\ \/ /\ node' = CreatePad("catchpad", ParentPad, ArgCount)
             /\ Returns("BuildCatchPad", args, "catchpad")
          \/ /\ ParentPad = NULL
             /\ proc' = "aborted"
             /\ bcall' = BCall("BuildCatchPad", args, FALSE, NULL, NULL)
             /\ UNCHANGED <<node, log>>
       /\ UNCHANGED <<avars, dvars, llvmMajor, module, handler>>

\* LLVMRustBuildCatchSwitch.
LLVMRustBuildCatchSwitch(ParentPad, NumHandlers) ==
    LET Parent == IF ParentPad = NULL THEN TokenNone ELSE ParentPad
    IN /\ proc = "running"
       /\ node' = CreatePad("catchswitch", Parent, NumHandlers)
       /\ Returns("BuildCatchSwitch", <<Arg("ParentPad", ParentPad)>>,
                  "catchswitch")
       /\ UNCHANGED <<avars, dvars, llvmMajor, module, handler>>

\* The values the memory cell holds.
MaxValue == 1
Values == 0..MaxValue

\* The orderings a compare-exchange may carry: the success ordering is at
\* least monotonic, the failure ordering is no release and no stronger than
\* the success ordering.
Strength ==
    [Monotonic |-> 1, Acquire |-> 2, Release |-> 2, AcquireRelease |-> 3,
     SequentiallyConsistent |-> 4]

SupportedPair(s, f) ==
    \E m \in DOMAIN Strength, n \in DOMAIN Strength \ {"Release", "AcquireRelease"} :
        /\ s = "AtomicOrdering::" \o m
        /\ f = "AtomicOrdering::" \o n
        /\ Strength[n] <= Strength[m]

\* The record of one executed compare-exchange.
Exchanged(old, cmp, success) == [old |-> old, cmp |-> cmp, success |-> success]

\* The program runs the atomic store the caller holds: the cell takes v.
ExecuteStore(v) ==
    /\ proc = "running"
    /\ node.kind = "store"
    /\ node.vals[1] # "AtomicOrdering::NotAtomic"
    /\ mem' = v
    /\ Returns("store", <<>>, NULL)
    /\ UNCHANGED <<avars, dibuilder, gv, elems, composite, out, di, heap, pending,
                      llvmMajor, module,
                 handler, node>>

\* The program runs the compare-exchange the caller holds: it compares the
\* cell with cmp and stores new on success; a weak one may fail although the
\* cell holds cmp.
ExecuteCmpXchg(cmp, new) ==
    /\ proc = "running"
    /\ node.kind = "cmpxchg"
    /\ SupportedPair(node.vals[1], node.vals[2])
    /\ \/ /\ mem = cmp
          /\ mem' = new
          /\ Returns("cmpxchg", <<>>, Exchanged(mem, cmp, TRUE))
       \/ /\ mem # cmp \/ node.vals[3]
          /\ mem' = mem
          /\ Returns("cmpxchg", <<>>, Exchanged(mem, cmp, FALSE))
    /\ UNCHANGED <<avars, dibuilder, gv, elems, composite, out, di, heap, pending,
                      llvmMajor, module,
                 handler, node>>

\* The constraint strings the modelled caller checks, and InlineAsm::Verify
\* on them: "=r,r" fits the function type, "=r,,r" has an empty constraint.
ConstraintStrings == {"=r,r", "=r,,r"}

Verify(Constraints) == Constraints = "=r,r"

\* A faulty check: it constructs the inline assembly when the string fits.
InlineAsmVerify_Constructs(Constraints) ==
    /\ proc = "running"
    /\ node' = IF Verify(Constraints)
               THEN Node("inlineasm", <<FALSE, FALSE, 0>>, {})
               ELSE node
    /\ Returns("InlineAsmVerify", <<Arg("Constraints", Constraints)>>,
               Verify(Constraints))
    /\ UNCHANGED <<avars, dvars, llvmMajor, module, handler>>

\* LLVMRustInlineAsmVerify.
LLVMRustInlineAsmVerify(Constraints) ==
    /\ proc = "running"
    /\ Returns("InlineAsmVerify", <<Arg("Constraints", Constraints)>>,
               Verify(Constraints))
    /\ UNCHANGED <<avars, dvars, llvmMajor, module, handler, node>>

\* The compiler building instructions, and the program built running its
\* atomic instructions.
NextInsn ==
    \/ LLVMRustInstallFatalErrorHandler
    \/ \E p \in ParentPads, n \in 0..MaxPadArgs : LLVMRustBuildCleanupPad(p, n)
    \/ \E p \in ParentPads, n \in 0..MaxPadArgs : LLVMRustBuildCatchPad(p, n)
    \/ \E p \in ParentPads, n \in 0..MaxPadArgs : LLVMRustBuildCatchSwitch(p, n)
    \/ \E o \in Inputs("AtomicOrdering") : LLVMRustBuildAtomicStore(o)
    \/ \E o \in Inputs("AtomicOrdering"), f \in Inputs("AtomicOrdering"),
          w \in LLVMBools : LLVMRustBuildAtomicCmpXchg(o, f, w)
    \/ \E v \in Values : ExecuteStore(v)
    \/ \E c \in Values, n \in Values : ExecuteCmpXchg(c, n)
    \/ \E se \in BOOLEAN, as \in BOOLEAN, d \in Inputs("AsmDialect") :
          LLVMRustInlineAsm(se, as, d)
    \/ \E c \in ConstraintStrings : LLVMRustInlineAsmVerify(c)

SpecInsn == InitIR /\ [][NextInsn]_vars

----------------------------------------------------------------------------
(* The debug-info builder, static variables, variant parts, diagnostics.   *)

\* The initializers of the global a static variable is bound to; an integer
\* is of IntBits bits.
IntBits == 8

Initializers ==
    {ConstantInt(IntBits, 42), ConstantInt(IntBits, 2^IntBits - 1),
     ConstantFP(2^30), ConstantStruct, NullValue}

\* dyn_cast<T>(V) is not null: V is of class T.
dyn_cast(T, V) == V.kind = T

\* APInt::getSExtValue.
getSExtValue(C) ==
    IF C.raw >= 2^(C.bits - 1) THEN C.raw - 2^C.bits ELSE C.raw

\* DIBuilder::createConstantValueExpression.
createConstantValueExpression(Val) ==
    <<"DW_OP_constu", Val, "DW_OP_stack_value">>

\* LLVMRustDIBuilderCreate: one builder per module.
LLVMRustDIBuilderCreate ==
    /\ proc = "running"
    /\ ~dibuilder.live
    /\ dibuilder' = [live |-> TRUE, finalized |-> 0]
    /\ Returns("DIBuilderCreate", <<>>, "DIBuilder")
    /\ UNCHANGED <<avars, mem, gv, elems, composite, out, di, heap, pending,
                      llvmMajor, module, handler,
                 node>>

\* Most finalize calls the modelled caller makes on one builder.
MaxFinalize == 2

\* LLVMRustDIBuilderFinalize.
LLVMRustDIBuilderFinalize ==
    /\ proc = "running"
    /\ dibuilder.live
    /\ dibuilder.finalized < MaxFinalize
    /\ dibuilder' = [dibuilder EXCEPT !.finalized = @ + 1]
    /\ Returns("DIBuilderFinalize", <<>>, NULL)
    /\ UNCHANGED <<avars, mem, gv, elems, composite, out, di, heap, pending,
                      llvmMajor, module, handler,
                 node>>

\* A faulty dispose: it finalizes a builder that was not finalized.
DIBuilderDispose_Finalizes ==
    /\ proc = "running"
    /\ dibuilder.live
    /\ dibuilder' = [live |-> FALSE,
                     finalized |-> IF dibuilder.finalized = 0 THEN 1
                                   ELSE dibuilder.finalized]
    /\ Returns("DIBuilderDispose", <<>>, NULL)
    /\ UNCHANGED <<avars, mem, gv, elems, composite, out, di, heap, pending,
                      llvmMajor, module, handler,
                 node>>

\* LLVMRustDIBuilderDispose: delete Builder.  The record keeps how often the
\* deleted builder had been finalized.
LLVMRustDIBuilderDispose ==
    /\ proc = "running"
    /\ dibuilder.live
    /\ dibuilder' = [dibuilder EXCEPT !.live = FALSE]
    /\ Returns("DIBuilderDispose", <<>>, NULL)
    /\ UNCHANGED <<avars, mem, gv, elems, composite, out, di, heap, pending,
                      llvmMajor, module, handler,
                 node>>

\* LLVMRustDIBuilderCreateStaticVariable on the global V = gv: the casts
\* are applied to the global variable itself.
LLVMRustDIBuilderCreateStaticVariable(IsLocalToUnit) ==
    LET InitVal == gv
        InitExpr ==
            IF dyn_cast("ConstantInt", InitVal)
            THEN createConstantValueExpression(getSExtValue(InitVal))
            ELSE IF dyn_cast("ConstantFP", InitVal)
            THEN createConstantValueExpression(InitVal.raw)
            ELSE <<>>
        VarExpr == Node("DIGlobalVariableExpression",
                        <<InitExpr, IsLocalToUnit>>, {})
    IN /\ proc = "running"
       /\ dibuilder.live
       /\ gv' = [gv EXCEPT !.dbg = VarExpr]
       /\ node' = VarExpr
       /\ Returns("DIBuilderCreateStaticVariable", <<>>,
                  "DIGlobalVariableExpression")
       /\ UNCHANGED <<avars, mem, dibuilder, elems, composite, out, di, heap, pending,
                      llvmMajor, module,
                    handler>>

\* The variant members a caller makes for one variant part, by position,
\* and the discriminants it keys them on.
MaxElems == 3
MaxDiscr == 2
VariantNames == [i \in 1..(MaxElems + 1) |-> <<"variant", i>>]

Discriminants == {NullValue} \cup {ConstantInt(64, d) : d \in 0..MaxDiscr}

\* A faulty member: it is unconditional whatever discriminant was supplied.
CreateVariantMemberType_Unconditional(Discriminant, Flags) ==
    /\ proc = "running"
    /\ dibuilder.live
    /\ Len(elems) < MaxElems
    /\ node' = Node("DW_TAG_member",
                    <<VariantNames[Len(elems) + 1], NullValue,
                      fromRust_DIFlags(Flags)>>, {})
    /\ elems' = Append(elems, node')
    /\ Returns("DIBuilderCreateVariantMemberType",
               <<Arg("Discriminant", Discriminant)>>, "DIDerivedType")
    /\ UNCHANGED <<avars, mem, dibuilder, gv, composite, out, di, heap, pending,
                      llvmMajor, module, handler>>

\* LLVMRustDIBuilderCreateVariantMemberType; the caller keeps the member in
\* the array it will pass as the elements of the variant part.
LLVMRustDIBuilderCreateVariantMemberType(Discriminant, Flags) ==
    LET D == IF Discriminant # NullValue THEN Discriminant ELSE NullValue
    IN /\ proc = "running"
       /\ dibuilder.live
       /\ Len(elems) < MaxElems
       /\ node' = Node("DW_TAG_member",
                       <<VariantNames[Len(elems) + 1], D,
                         fromRust_DIFlags(Flags)>>, {})
       /\ elems' = Append(elems, node')
       /\ Returns("DIBuilderCreateVariantMemberType",
                  <<Arg("Discriminant", Discriminant)>>, "DIDerivedType")
       /\ UNCHANGED <<avars, mem, dibuilder, gv, composite, out, di, heap, pending,
                      llvmMajor, module, handler>>

\* The discriminator of a variant part: the member holding the tag, or none.
Discriminators == {"tag", NULL}

\* LLVMRustDIBuilderCreateVariantPart with the members kept so far as its
\* elements.
LLVMRustDIBuilderCreateVariantPart(Discriminator, Flags) ==
    /\ proc = "running"
    /\ dibuilder.live
    /\ node' = Node("DW_TAG_variant_part",
                    <<Discriminator, elems, fromRust_DIFlags(Flags), <<>>>>,
                    {})
    /\ composite' = node'
    /\ elems' = <<>>
    /\ Returns("DIBuilderCreateVariantPart",
               <<Arg("Discriminator", Discriminator)>>, "DICompositeType")
    /\ UNCHANGED <<avars, mem, dibuilder, gv, out, di, heap, pending,
                      llvmMajor, module, handler>>

\* DIBuilder::replaceArrays on the composite type T with two arrays that
\* are there: each takes the place of the one T holds.  vals[2] are the
\* elements of T and vals[4] its template parameters.
replaceArrays(T, Elements, TParams) ==
    [T EXCEPT !.vals[2] = Elements, !.vals[4] = TParams]

\* The template parameters a caller names.
TemplateParams == {<<>>, <<"T">>}

\* LLVMRustDICompositeTypeReplaceArrays on the composite type the caller
\* holds.  unwrap<MDTuple> asserts that the array it is given is there, so
\* the calls modelled pass two arrays, empty ones included.  The type is
\* changed in place: a handle that refers to it shows the new arrays.  A
\* caller that passes the members it kept starts a new array.
LLVMRustDICompositeTypeReplaceArrays(Elements, Params) ==
    /\ proc = "running"
    /\ dibuilder.live
    /\ composite # NoNode
    /\ composite' = replaceArrays(composite, Elements, Params)
    /\ node' = IF node = composite THEN composite' ELSE node
    /\ elems' = IF Elements = elems THEN <<>> ELSE elems
    /\ Returns("DICompositeTypeReplaceArrays",
               <<Arg("Elements", Elements), Arg("Params", Params)>>, NULL)
    /\ UNCHANGED <<avars, mem, dibuilder, gv, out, di, heap, pending,
                      llvmMajor, module, handler>>

\* enum DiagnosticKind of the backend, in the order of its values from 0;
\* the last stands for the kinds of plugins.
DiagnosticKind ==
    <<"DK_InlineAsm", "DK_ResourceLimit", "DK_StackSize", "DK_Linker",
      "DK_DebugMetadataVersion", "DK_DebugMetadataInvalid", "DK_ISelFallback",
      "DK_SampleProfile", "DK_OptimizationRemark",
      "DK_OptimizationRemarkMissed", "DK_OptimizationRemarkAnalysis",
      "DK_OptimizationRemarkAnalysisFPCommute",
      "DK_OptimizationRemarkAnalysisAliasing", "DK_OptimizationFailure",
      "DK_MachineOptimizationRemark", "DK_MachineOptimizationRemarkMissed",
      "DK_MachineOptimizationRemarkAnalysis", "DK_MIRParser", "DK_PGOProfile",
      "DK_Unsupported", "DK_FirstPluginKind">>

\* The value of the kind named n.
DK(n) == (CHOOSE i \in DOMAIN DiagnosticKind : DiagnosticKind[i] = n) - 1

DK_FirstRemark == DK("DK_OptimizationRemark")
DK_LastRemark == DK("DK_OptimizationFailure")

\* A faulty translation: every kind that is not listed is Other.
toRust_DiagnosticKind_NoRange(Kind) ==
    CASE Kind = DK("DK_InlineAsm") -> "InlineAsm"
      [] Kind = DK("DK_StackSize") -> "StackSize"
      [] Kind = DK("DK_DebugMetadataVersion") -> "DebugMetadataVersion"
      [] Kind = DK("DK_SampleProfile") -> "SampleProfile"
      [] Kind = DK("DK_OptimizationRemark") -> "OptimizationRemark"
      [] Kind = DK("DK_OptimizationRemarkMissed") -> "OptimizationRemarkMissed"
      [] Kind = DK("DK_OptimizationRemarkAnalysis") ->
             "OptimizationRemarkAnalysis"
      [] Kind = DK("DK_OptimizationRemarkAnalysisFPCommute") ->
             "OptimizationRemarkAnalysisFPCommute"
      [] Kind = DK("DK_OptimizationRemarkAnalysisAliasing") ->
             "OptimizationRemarkAnalysisAliasing"
      [] Kind = DK("DK_PGOProfile") -> "PGOProfile"
      [] Kind = DK("DK_Linker") -> "Linker"
      [] Kind = DK("DK_Unsupported") -> "Unsupported"
      [] OTHER -> "Other"

\* toRust(DiagnosticKind).
toRust_DiagnosticKind(Kind) ==
    CASE Kind = DK("DK_InlineAsm") -> "InlineAsm"
      [] Kind = DK("DK_StackSize") -> "StackSize"
      [] Kind = DK("DK_DebugMetadataVersion") -> "DebugMetadataVersion"
      [] Kind = DK("DK_SampleProfile") -> "SampleProfile"
      [] Kind = DK("DK_OptimizationRemark") -> "OptimizationRemark"
      [] Kind = DK("DK_OptimizationRemarkMissed") -> "OptimizationRemarkMissed"
      [] Kind = DK("DK_OptimizationRemarkAnalysis") ->
             "OptimizationRemarkAnalysis"
      [] Kind = DK("DK_OptimizationRemarkAnalysisFPCommute") ->
             "OptimizationRemarkAnalysisFPCommute"
      [] Kind = DK("DK_OptimizationRemarkAnalysisAliasing") ->
             "OptimizationRemarkAnalysisAliasing"
      [] Kind = DK("DK_PGOProfile") -> "PGOProfile"
      [] Kind = DK("DK_Linker") -> "Linker"
      [] Kind = DK("DK_Unsupported") -> "Unsupported"
      [] OTHER -> IF Kind >= DK_FirstRemark /\ Kind <= DK_LastRemark
                  THEN "OptimizationRemarkOther"
                  ELSE "Other"

\* The kinds of the diagnostics the backend hands over: every kind it
\* declares and the kinds of MaxPluginKinds plugins.
MaxPluginKinds == 2
DiagnosticKinds == 0..(DK("DK_FirstPluginKind") + MaxPluginKinds - 1)

\* A faulty classification: the unsupported kind falls into the catch-all.
GetDiagInfoKind_UnsupportedAsOther(Kind) ==
    /\ proc = "running"
    /\ Returns("GetDiagInfoKind", <<Arg("DiagnosticKind", Kind)>>,
               IF Kind = DK("DK_Unsupported") THEN "Other"
               ELSE toRust_DiagnosticKind(Kind))
    /\ UNCHANGED <<avars, dvars, llvmMajor, module, handler, node>>

\* A faulty classification: the optimization failure gets its own entry.
GetDiagInfoKind_FailureListed(Kind) ==
    /\ proc = "running"
    /\ Returns("GetDiagInfoKind", <<Arg("DiagnosticKind", Kind)>>,
               IF Kind = DK("DK_OptimizationFailure")
               THEN "OptimizationFailure"
               ELSE toRust_DiagnosticKind(Kind))
    /\ UNCHANGED <<avars, dvars, llvmMajor, module, handler, node>>

\* LLVMRustGetDiagInfoKind on a diagnostic of the kind Kind.
LLVMRustGetDiagInfoKind(Kind) ==
    /\ proc = "running"
    /\ Returns("GetDiagInfoKind", <<Arg("DiagnosticKind", Kind)>>,
               toRust_DiagnosticKind(Kind))
    /\ UNCHANGED <<avars, dvars, llvmMajor, module, handler, node>>

\* The compiler describing one global, with the backend reporting
\* diagnostics in between.
InitDbg ==
    /\ llvmMinor = 0
    /\ ArchiveIdle
    /\ llvmMajor \in MajorVersions
    /\ IRIdle
    /\ mem = 0
    /\ dibuilder = NoBuilder
    /\ gv \in {Global(i, NoNode) : i \in Initializers}
    /\ elems = <<>>
    /\ composite = NoNode
    /\ out = NoOut
    /\ di = NoDiagnostic
    /\ heap = NoHeap
    /\ pending = [t \in Threads |-> NULL]

NextDbg ==
    \/ LLVMRustDIBuilderCreate
    \/ LLVMRustDIBuilderFinalize
    \/ LLVMRustDIBuilderDispose
    \/ \E l \in BOOLEAN : LLVMRustDIBuilderCreateStaticVariable(l)
    \/ \E k \in DiagnosticKinds : LLVMRustGetDiagInfoKind(k)

SpecDbg == InitDbg /\ [][NextDbg]_vars

\* The compiler describing the variants of enums.
NextVariant ==
    \/ LLVMRustDIBuilderCreate
    \/ LLVMRustDIBuilderFinalize
    \/ LLVMRustDIBuilderDispose
    \/ \E d \in Discriminants :
          LLVMRustDIBuilderCreateVariantMemberType(d, FlagZero)
    \/ \E d \in Discriminators : LLVMRustDIBuilderCreateVariantPart(d, FlagZero)
    \/ \E e \in {<<>>, elems}, p \in TemplateParams :
          LLVMRustDICompositeTypeReplaceArrays(e, p)

SpecVariant == InitIR /\ [][NextVariant]_vars

----------------------------------------------------------------------------
(* Unpacking diagnostics.  The backend hands a diagnostic (di) to the      *)
(* caller's handler; the handler prepares out-parameters (out) and calls   *)
(* one of the unpacking functions, which writes through them.  The field   *)
(* touched of out lists the out-parameters written: <<name, index>>.       *)

\* LLVMRustStringWriteImpl: the bytes are appended to the caller's string.
LLVMRustStringWriteImpl(Str, Data) == Str \o Data

\* RawRustStringOstream: a buffered stream over one of the caller's strings.
\* A new stream holds nothing; OS << Data keeps the bytes in the stream; the
\* destructor flushes them to the string, and a stream that holds nothing
\* writes nothing.  A process that exits destroys no stream.
RawRustStringOstream == ""
Write(OS, Data) == OS \o Data
Destroy(Str, OS) == IF OS = "" THEN Str ELSE LLVMRustStringWriteImpl(Str, OS)

\* A debug-info file: no file, a file named relative to its directory, and a
\* file with an absolute name.
NoDIFile == [Directory |-> "", Filename |-> ""]
DIFiles ==
    {[Directory |-> "/work", Filename |-> "src/lib.rs"],
     [Directory |-> "/work", Filename |-> "/rustc/core/mem.rs"]}

\* sys::path::is_absolute on the file names of DIFiles.
is_absolute(Name) == Name = "/rustc/core/mem.rs"

\* DiagnosticLocation: isValid and getAbsolutePath.
MaxLine == 2
MaxColumn == 1
DiagnosticLocation(File, Line, Column) ==
    [File |-> File, Line |-> Line, Column |-> Column]
DiagnosticLocations ==
    {DiagnosticLocation(NoDIFile, 0, 0)}
    \cup {DiagnosticLocation(f, l, c) :
             f \in DIFiles, l \in 1..MaxLine, c \in 0..MaxColumn}
isValid(loc) == loc.File # NoDIFile
getAbsolutePath(loc) ==
    IF is_absolute(loc.File.Filename) THEN loc.File.Filename
    ELSE loc.File.Directory \o "/" \o loc.File.Filename

\* The optimization remarks the backend reports.
OptimizationDiagnostics ==
    {[kind |-> "Optimization", PassName |-> p, Function |-> f, Loc |-> loc,
      Msg |-> "loop not vectorized"] :
        p \in {"inline", "loop-vectorize"}, f \in {"@main", "@callee"},
        loc \in DiagnosticLocations}

\* The out-parameters a handler prepares for an optimization remark: fresh
\* strings, and the line and column variables as it initialised them.
MaxPrior == 1
OptimizationOuts ==
    {[by |-> "caller", PassNameOut |-> "", FunctionOut |-> NULL, Line |-> l,
      Column |-> c, FilenameOut |-> "", MessageOut |-> "", touched |-> {}] :
        l \in {0, MaxLine + MaxPrior}, c \in {0, MaxColumn + MaxPrior}}

\* A faulty unpacking: the line and the column are written whether or not
\* the location is valid.
UnpackOptimizationDiagnostic_AlwaysLocation ==
    LET Opt == di
        PassNameOS == Write(RawRustStringOstream, Opt.PassName)
        loc == Opt.Loc
        FilenameOS == IF isValid(loc)
                      THEN Write(RawRustStringOstream, getAbsolutePath(loc))
                      ELSE RawRustStringOstream
        MessageOS == Write(RawRustStringOstream, Opt.Msg)
    IN /\ proc = "running"
       /\ di.kind = "Optimization"
       /\ out.by = "caller"
       /\ out' = [by |-> "LLVMRustUnpackOptimizationDiagnostic",
                  PassNameOut |-> Destroy(out.PassNameOut, PassNameOS),
                  FunctionOut |-> Opt.Function,
                  Line |-> loc.Line,
                  Column |-> loc.Column,
                  FilenameOut |-> Destroy(out.FilenameOut, FilenameOS),
                  MessageOut |-> Destroy(out.MessageOut, MessageOS),
                  touched |-> {<<"PassNameOut", 0>>, <<"FunctionOut", 0>>,
                               <<"MessageOut", 0>>, <<"Line", 0>>,
                               <<"Column", 0>>}
                              \cup (IF isValid(loc)
                                    THEN {<<"FilenameOut", 0>>} ELSE {})]
       /\ Returns("UnpackOptimizationDiagnostic",
                  <<Arg("DI", di), Arg("Out", out)>>, NULL)
       /\ UNCHANGED <<avars, mem, dibuilder, gv, elems, composite, di, heap, pending,
                      llvmMajor, module,
                      handler, node>>

\* LLVMRustUnpackOptimizationDiagnostic on the remark di.
LLVMRustUnpackOptimizationDiagnostic ==
    LET Opt == di
        PassNameOS == Write(RawRustStringOstream, Opt.PassName)
        loc == Opt.Loc
        FilenameOS == IF isValid(loc)
                      THEN Write(RawRustStringOstream, getAbsolutePath(loc))
                      ELSE RawRustStringOstream
        MessageOS == Write(RawRustStringOstream, Opt.Msg)
    IN /\ proc = "running"
       /\ di.kind = "Optimization"
       /\ out.by = "caller"
       /\ out' = [by |-> "LLVMRustUnpackOptimizationDiagnostic",
                  PassNameOut |-> Destroy(out.PassNameOut, PassNameOS),
                  FunctionOut |-> Opt.Function,
                  Line |-> IF isValid(loc) THEN loc.Line ELSE out.Line,
                  Column |-> IF isValid(loc) THEN loc.Column ELSE out.Column,
                  FilenameOut |-> Destroy(out.FilenameOut, FilenameOS),
                  MessageOut |-> Destroy(out.MessageOut, MessageOS),
                  touched |-> {<<"PassNameOut", 0>>, <<"FunctionOut", 0>>,
                               <<"MessageOut", 0>>}
                              \cup (IF isValid(loc)
                                    THEN {<<"Line", 0>>, <<"Column", 0>>,
                                          <<"FilenameOut", 0>>}
                                    ELSE {})]
       /\ Returns("UnpackOptimizationDiagnostic",
                  <<Arg("DI", di), Arg("Out", out)>>, NULL)
       /\ UNCHANGED <<avars, mem, dibuilder, gv, elems, composite, di, heap, pending,
                      llvmMajor, module,
                      handler, node>>

\* The buffer the source manager parses: its bytes, and the address of its
\* first byte.
Buffer == <<"a", "\n", "b", "c", "\n">>
BufferStart == 16
getBufferSize(Buf) == Len(Buf)

\* SMLoc: a pointer into the buffer; the null pointer for no location.
SMLoc(Ptr) == [Ptr |-> Ptr]
NoSMLoc == SMLoc(0)

\* SourceMgr::GetMessage: the start and the end of the line that holds the
\* byte at offset o (the end is the offset of its newline or of the end of
\* the buffer).
LineStartOf(Buf, o) ==
    LET before == {i \in 1..o : Buf[i] = "\n"}
    IN IF before = {} THEN 0
       ELSE CHOOSE i \in before : \A j \in before : j <= i
LineEndOf(Buf, o) ==
    LET after == {i \in (o + 1)..Len(Buf) : Buf[i] = "\n"}
    IN IF after = {} THEN Len(Buf)
       ELSE (CHOOSE i \in after : \A j \in after : i <= j) - 1

\* SourceMgr::GetMessage, the ranges: those that meet the line, clipped to
\* it, as pairs of columns counted from the start of the line.
RECURSIVE ColRanges(_, _, _)
ColRanges(Ranges, LineStart, LineEnd) ==
    IF Ranges = <<>> THEN <<>>
    ELSE LET R == Head(Ranges)
             S == IF R[1] < LineStart THEN LineStart ELSE R[1]
             E == IF R[2] > LineEnd THEN LineEnd ELSE R[2]
             rest == ColRanges(Tail(Ranges), LineStart, LineEnd)
         IN IF R[1] > LineEnd \/ R[2] < LineStart THEN rest
            ELSE <<<<S - LineStart, E - LineStart>>>> \o rest

\* SourceMgr::GetMessage: the diagnostic for the byte at offset o of Buf,
\* with the ranges given as pairs of offsets into Buf.  Ranges keeps what
\* the parser passed, for reference.
GetMessage(Buf, o, Kind, Msg, Ranges) ==
    [kind |-> "SMDiagnostic", Message |-> Msg, Kind |-> Kind,
     Loc |-> SMLoc(BufferStart + o), Buf |-> Buf,
     ColumnNo |-> o - LineStartOf(Buf, o),
     Ranges |-> ColRanges(Ranges, LineStartOf(Buf, o), LineEndOf(Buf, o)),
     SMRanges |-> Ranges]

\* SMDiagnostic(filename, Kind, Msg): a diagnostic without a location.
WithoutLoc(Kind, Msg) ==
    [kind |-> "SMDiagnostic", Message |-> Msg, Kind |-> Kind,
     Loc |-> NoSMLoc, Buf |-> <<>>, ColumnNo |-> 0 - 1, Ranges |-> <<>>,
     SMRanges |-> <<>>]

\* SourceMgr::DiagKind, and a value outside of it.
SMDiagKinds ==
    {"DK_Error", "DK_Warning", "DK_Note", "DK_Remark", "(DiagKind)4"}

\* The switch of LLVMRustUnpackSMDiagnostic over the kind.
DiagnosticLevel ==
    [DK_Error |-> "Error", DK_Warning |-> "Warning", DK_Note |-> "Note",
     DK_Remark |-> "Remark"]

\* The ranges a parser marks: up to MaxRanges half-open pairs of offsets.
MaxRanges == 2
SMRange == {<<s, e>> \in (0..Len(Buffer)) \X (0..Len(Buffer)) : s < e}
SMRangeLists ==
    UNION {[1..n -> SMRange] : n \in 0..MaxRanges}

SMDiagnostics ==
    {WithoutLoc(k, "unknown directive") : k \in SMDiagKinds}
    \cup {GetMessage(Buffer, o, k, "invalid operand", rs) :
             o \in 0..Len(Buffer), k \in SMDiagKinds, rs \in SMRangeLists}

\* The out-parameters a handler prepares for a source-manager diagnostic:
\* fresh strings, an array of MaxRangesOut pairs and the number of pairs it
\* accepts.
MaxRangesOut == 2
SMOuts ==
    {[by |-> "caller", MessageOut |-> "", BufferOut |-> <<>>,
      LevelOut |-> "Error", LocOut |-> 0,
      RangesOut |-> [i \in 0..(2 * MaxRangesOut - 1) |-> 0],
      NumRanges |-> n, touched |-> {}] : n \in 0..MaxRangesOut}

Min(a, b) == IF a < b THEN a ELSE b

\* A faulty count: every range of the diagnostic, whatever the caller
\* accepts.
NumRangesOut_Unbounded(Max, D) == Len(D.Ranges)

\* *NumRanges = std::min(*NumRanges, D.getRanges().size()).
NumRangesOut(Max, D) == Min(Max, Len(D.Ranges))

\* A faulty entry: the column as the diagnostic holds it.
RangeEntry_Column(D, LineStart, i) == D.Ranges[(i \div 2) + 1][(i % 2) + 1]

\* RangesOut[i]: the first (even i) or second (odd i) column of range i / 2
\* of the diagnostic, added to LineStart.
RangeEntry(D, LineStart, i) ==
    LineStart + D.Ranges[(i \div 2) + 1][(i % 2) + 1]

\* LLVMRustUnpackSMDiagnostic on the diagnostic di.  The message stays in
\* MessageOS until the function returns; a fatal error leaves it there.
LLVMRustUnpackSMDiagnostic ==
    LET D == di
        args == <<Arg("D", di), Arg("Out", out)>>
        MessageOS == Write(RawRustStringOstream, D.Message)
        called == [out EXCEPT !.by = "LLVMRustUnpackSMDiagnostic"]
        written == [called EXCEPT
                       !.MessageOut = Destroy(out.MessageOut, MessageOS),
                       !.touched = {<<"MessageOut", 0>>}]
        LocOut == D.Loc.Ptr - BufferStart
        NumRanges == NumRangesOut(out.NumRanges, D)
        LineStart == LocOut - D.ColumnNo
    IN /\ proc = "running"
       /\ di.kind = "SMDiagnostic"
       /\ out.by = "caller"
       /\ IF D.Kind \notin DOMAIN DiagnosticLevel
          THEN /\ out' = called
               /\ Aborts("UnpackSMDiagnostic", args,
                         "Invalid LLVMRustDiagnosticLevel value!")
          ELSE IF D.Loc = NoSMLoc
          THEN /\ out' = [written EXCEPT
                             !.LevelOut = DiagnosticLevel[D.Kind],
                             !.touched = @ \cup {<<"LevelOut", 0>>}]
               /\ Returns("UnpackSMDiagnostic", args, FALSE)
          ELSE /\ out' = [written EXCEPT
                             !.LevelOut = DiagnosticLevel[D.Kind],
                             !.BufferOut =
                                 LLVMRustStringWriteImpl(out.BufferOut, D.Buf),
                             !.LocOut = LocOut,
                             !.NumRanges = NumRanges,
                             !.RangesOut =
                                 [i \in DOMAIN out.RangesOut |->
                                     IF i < 2 * NumRanges
                                     THEN RangeEntry(D, LineStart, i)
                                     ELSE out.RangesOut[i]],
                             !.touched =
                                 @ \cup {<<"LevelOut", 0>>, <<"BufferOut", 0>>,
                                         <<"LocOut", 0>>, <<"NumRanges", 0>>}
                                   \cup {<<"RangesOut", i>> :
                                            i \in 0..(2 * NumRanges - 1)}]
               /\ Returns("UnpackSMDiagnostic", args, TRUE)
       /\ UNCHANGED <<avars, mem, dibuilder, gv, elems, composite, di, heap, pending,
                      llvmMajor, module,
                      handler, node>>

\* DiagnosticSeverity, and a value outside of it.
Severities == {"DS_Error", "DS_Warning", "DS_Remark", "DS_Note",
               "(DiagnosticSeverity)9"}

\* The switch of LLVMRustUnpackInlineAsmDiagnostic over the severity.
SeverityLevel ==
    [DS_Error |-> "Error", DS_Warning |-> "Warning", DS_Note |-> "Note",
     DS_Remark |-> "Remark"]

\* The inline-assembly diagnostics the backend reports: with or without a
\* location cookie and an instruction.
MaxCookie == 1
InlineAsmDiagnostics ==
    {[kind |-> "InlineAsm", Severity |-> s, LocCookie |-> c,
      MsgStr |-> "invalid instruction mnemonic", Instruction |-> i] :
        s \in Severities, c \in 0..MaxCookie, i \in {NULL, "call asm"}}

\* The out-parameters a handler prepares for an inline-assembly diagnostic.
InlineAsmOuts ==
    {[by |-> "caller", LevelOut |-> l, CookieOut |-> 0, MessageOut |-> NULL,
      InstructionOut |-> NULL, touched |-> {}] : l \in {"Error", "Remark"}}

\* LLVMRustUnpackInlineAsmDiagnostic on the diagnostic di: the cookie, the
\* message and the instruction are written before the switch over the
\* severity.
LLVMRustUnpackInlineAsmDiagnostic ==
    LET IA == di
        args == <<Arg("DI", di), Arg("Out", out)>>
        written == [out EXCEPT
                       !.by = "LLVMRustUnpackInlineAsmDiagnostic",
                       !.CookieOut = IA.LocCookie,
                       !.MessageOut = IA.MsgStr,
                       !.InstructionOut = IA.Instruction,
                       !.touched = {<<"CookieOut", 0>>, <<"MessageOut", 0>>,
                                    <<"InstructionOut", 0>>}]
    IN /\ proc = "running"
       /\ di.kind = "InlineAsm"
       /\ out.by = "caller"
       /\ IF IA.Severity \in DOMAIN SeverityLevel
          THEN /\ out' = [written EXCEPT
                             !.LevelOut = SeverityLevel[IA.Severity],
                             !.touched = @ \cup {<<"LevelOut", 0>>}]
               /\ Returns("UnpackInlineAsmDiagnostic", args, NULL)
          ELSE /\ out' = written
               /\ Aborts("UnpackInlineAsmDiagnostic", args,
                         "Invalid LLVMRustDiagnosticLevel value!")
       /\ UNCHANGED <<avars, mem, dibuilder, gv, elems, composite, di, heap, pending,
                      llvmMajor, module,
                      handler, node>>

\* A handler that has received a diagnostic and prepared its out-parameters.
\* The unpacking functions are the same for every backend version.
InitDiag ==
    /\ llvmMinor = 0
    /\ ArchiveIdle
    /\ llvmMajor = 11
    /\ IRIdle
    /\ mem = 0
    /\ dibuilder = NoBuilder
    /\ gv = Global(NullValue, NoNode)
    /\ elems = <<>>
    /\ composite = NoNode
    /\ heap = NoHeap
    /\ pending = [t \in Threads |-> NULL]
    /\ \/ di \in OptimizationDiagnostics /\ out \in OptimizationOuts
       \/ di \in SMDiagnostics /\ out \in SMOuts
       \/ di \in InlineAsmDiagnostics /\ out \in InlineAsmOuts

NextDiag ==
    \/ LLVMRustInstallFatalErrorHandler
    \/ LLVMRustUnpackOptimizationDiagnostic
    \/ LLVMRustUnpackInlineAsmDiagnostic
    \/ LLVMRustUnpackSMDiagnostic

SpecDiag == InitDiag /\ [][NextDiag]_vars

----------------------------------------------------------------------------
(* Reading a constant integer back.  An APInt is its bits, least           *)
(* significant first; a 64-bit word of the caller is 64 bits in the same   *)
(* order.                                                                  *)

APInt(Bits) == [BitWidth |-> Len(Bits), Bits |-> Bits]

\* The numbers of bits of the words the caller passes and of the widened
\* value.
WordBits == 64
WideBits == 2 * WordBits

\* The widths of the constants read back: the widths the compiler's integer
\* types have, widths in between, and one beyond the widened value.
BitWidths == {1, 7, 8, 16, 24, 32, 64, 100, 128, 129}

\* For a width: zero, one, the smallest and the largest signed number and
\* minus one.
APInts ==
    UNION {{APInt([i \in 1..w |-> 0]),
            APInt([i \in 1..w |-> IF i = 1 THEN 1 ELSE 0]),
            APInt([i \in 1..w |-> IF i = w THEN 1 ELSE 0]),
            APInt([i \in 1..w |-> IF i = w THEN 0 ELSE 1]),
            APInt([i \in 1..w |-> 1])} : w \in BitWidths}

\* APInt::sextOrSelf and APInt::zextOrSelf.
sextOrSelf(AP, width) ==
    IF AP.BitWidth >= width THEN AP
    ELSE APInt([i \in 1..width |->
                   IF i <= AP.BitWidth THEN AP.Bits[i]
                   ELSE AP.Bits[AP.BitWidth]])
zextOrSelf(AP, width) ==
    IF AP.BitWidth >= width THEN AP
    ELSE APInt([i \in 1..width |->
                   IF i <= AP.BitWidth THEN AP.Bits[i] ELSE 0])

\* APInt::getLoBits(n).getZExtValue() and APInt::getHiBits(n).getZExtValue()
\* as a 64-bit word.
getLoBits(AP, n) == [i \in 1..n |-> AP.Bits[i]]
getHiBits(AP, n) == [i \in 1..n |-> AP.Bits[AP.BitWidth - n + i]]

\* The words the caller passes: both zero, or both holding a pattern that
\* no widened constant of APInts has.
Words ==
    {[i \in 1..WordBits |-> 0], [i \in 1..WordBits |-> i % 2]}
Int128Outs ==
    {[by |-> "caller", high |-> w, low |-> w, touched |-> {}] : w \in Words}

\* LLVMRustConstInt128Get on the constant integer the handle node refers to.
LLVMRustConstInt128Get(sext) ==
    LET C == node.vals[1]
        AP == IF sext THEN sextOrSelf(C, WideBits) ELSE zextOrSelf(C, WideBits)
        args == <<Arg("CV", C), Arg("sext", sext), Arg("Out", out)>>
    IN /\ proc = "running"
       /\ node.kind = "ConstantInt"
       /\ out.by = "caller"
       /\ IF C.BitWidth > WideBits
          THEN /\ out' = [out EXCEPT !.by = "LLVMRustConstInt128Get"]
               /\ Returns("ConstInt128Get", args, FALSE)
          ELSE /\ out' = [by |-> "LLVMRustConstInt128Get",
                          high |-> getHiBits(AP, WordBits),
                          low |-> getLoBits(AP, WordBits),
                          touched |-> {<<"low", 0>>, <<"high", 0>>}]
               /\ Returns("ConstInt128Get", args, TRUE)
       /\ UNCHANGED <<avars, mem, dibuilder, gv, elems, composite, di, heap, pending,
                      llvmMajor, module,
                      handler, node>>

\* The caller holding a constant integer and two words to read it into.
InitConst ==
    /\ llvmMinor = 0
    /\ ArchiveIdle
    /\ llvmMajor \in MajorVersions
    /\ handler = "none"
    /\ proc = "running"
    /\ log = <<>>
    /\ node \in {Node("ConstantInt", <<c>>, {}) : c \in APInts}
    /\ module = NoModule
    /\ bcall = NoBCall
    /\ mem = 0
    /\ dibuilder = NoBuilder
    /\ gv = Global(NullValue, NoNode)
    /\ elems = <<>>
    /\ composite = NoNode
    /\ di = NoDiagnostic
    /\ heap = NoHeap
    /\ pending = [t \in Threads |-> NULL]
    /\ out \in Int128Outs

NextConst ==
    \/ LLVMRustInstallFatalErrorHandler
    \/ \E sext \in BOOLEAN : LLVMRustConstInt128Get(sext)

SpecConst == InitConst /\ [][NextConst]_vars

----------------------------------------------------------------------------
(* The Last-Error slot at the level of its allocations.  Here a slot holds *)
(* the address of the block strdup returned, or NULL; heap tells for each  *)
(* address whether it is allocated, the message in it, whether the caller  *)
(* holds the address (caller) and the message it held when the caller got  *)
(* it (ret).                                                               *)

\* free(p): nothing for the null pointer; a block that is not allocated has
\* been freed twice.
free(h, p) ==
    IF p = NULL THEN h
    ELSE [h EXCEPT ![p].state =
                       IF @ = "allocated" THEN "free" ELSE "freed twice"]

\* The addresses malloc can return in the heap h.
Available(h) == {p \in Addresses : h[p].state = "free"}

\* strdup(Err) returning p: the block holds a copy of Err.
strdup(h, p, Err) ==
    [h EXCEPT ![p] = [@ EXCEPT !.state = "allocated", !.msg = Err]]

\* The messages of the failing calls.
Messages == {ENOENT, EINVAL}

\* The first statement of LLVMRustSetLastError(Err) by thread t:
\* free(LastError).  The slot keeps the address of the freed block until
\* the second statement assigns to it.
SetLastError_free(t, Err) ==
    /\ pending[t] = NULL
    /\ heap' = free(heap, LastError[t])
    /\ pending' = [pending EXCEPT ![t] = Err]
    /\ last' = Call(t, "SetLastError", 0, "free", FALSE, 0, Err, <<>>, NULL)
    /\ UNCHANGED <<irvars, mem, dibuilder, gv, elems, composite, out, di,
                   llvmMinor, LastError, fs, archives, iters, children,
                   writes, wrote, fail>>

\* The second statement: LastError = strdup(Err).  strdup returns any
\* address available by then, or NULL when none is.
SetLastError_strdup(t, Err) ==
    /\ pending[t] = Err
    /\ IF Available(heap) = {}
       THEN /\ heap' = heap
            /\ LastError' = [LastError EXCEPT ![t] = NULL]
       ELSE \E p \in Available(heap) :
               /\ heap' = strdup(heap, p, Err)
               /\ LastError' = [LastError EXCEPT ![t] = p]
    /\ pending' = [pending EXCEPT ![t] = NULL]
    /\ last' = Call(t, "SetLastError", 0, "strdup", FALSE, 0, Err, <<>>, NULL)
    /\ UNCHANGED <<irvars, mem, dibuilder, gv, elems, composite, out, di,
                   llvmMinor, fs, archives, iters, children, writes, wrote,
                   fail>>

\* LLVMRustSetLastError(Err) by thread t: the two statements are two calls
\* into the allocator the threads share, and the other thread can run
\* between them.
SetLastError(t, Err) ==
    \/ SetLastError_free(t, Err)
    \/ SetLastError_strdup(t, Err)

\* A faulty LLVMRustGetLastError: the slot keeps the address it handed out.
GetLastError_KeepsAddress(t) ==
    LET Ret == LastError[t]
    IN /\ pending[t] = NULL
       /\ heap' = IF Ret = NULL THEN heap
                  ELSE [heap EXCEPT ![Ret].caller = TRUE,
                                    ![Ret].ret = heap[Ret].msg]
       /\ last' = Call(t, "GetLastError", 0, "", Ret = NULL, 0, Ret, <<>>,
                       NULL)
       /\ UNCHANGED <<irvars, mem, dibuilder, gv, elems, composite, out, di,
                      llvmMinor, pending, LastError, fs, archives, iters,
                      children, writes, wrote, fail>>

\* LLVMRustGetLastError by thread t: the address in the slot goes to the
\* caller and the slot becomes null.
GetLastError(t) ==
    LET Ret == LastError[t]
    IN /\ pending[t] = NULL
       /\ LastError' = [LastError EXCEPT ![t] = NULL]
       /\ heap' = IF Ret = NULL THEN heap
                  ELSE [heap EXCEPT ![Ret].caller = TRUE,
                                    ![Ret].ret = heap[Ret].msg]
       /\ last' = Call(t, "GetLastError", 0, "", Ret = NULL, 0, Ret, <<>>,
                       NULL)
       /\ UNCHANGED <<irvars, mem, dibuilder, gv, elems, composite, out, di,
                      llvmMinor, pending, fs, archives, iters, children,
                      writes, wrote, fail>>

\* A thread of the caller is done with a message that was read: it frees
\* the block and drops the address.
CallerFree(t, p) ==
    /\ pending[t] = NULL
    /\ heap[p].caller
    /\ heap' = [free(heap, p) EXCEPT ![p].caller = FALSE, ![p].ret = NULL]
    /\ last' = Call(t, "free", 0, "", FALSE, 0, p, <<>>, NULL)
    /\ UNCHANGED <<irvars, mem, dibuilder, gv, elems, composite, out, di,
                   llvmMinor, pending, LastError, fs, archives, iters,
                   children, writes, wrote, fail>>

NextHeap ==
    \/ \E t \in Threads, Err \in Messages : SetLastError(t, Err)
    \/ \E t \in Threads : GetLastError(t)
    \/ \E t \in Threads, p \in Addresses : CallerFree(t, p)

SpecHeap == Init /\ [][NextHeap]_vars

----------------------------------------------------------------------------
(* Claims about the Last-Error slot and the archive reader and writer.     *)

FailingOps == {"OpenArchive", "CreateMemoryBuffer", "ArchiveChildName",
               "ArchiveChildData", "WriteArchive"}

\* A path that cannot be read, or whose contents are no archive.
Unreadable(p) == fs[p] = NoFile \/ fs[p][1].tag \notin {"magic", "thin"}

\* C1: LLVMRustOpenArchive on an unreadable path or on a file that is no
\* archive returns null; it returns null exactly when it set the calling
\* thread's slot in that call, and the slot then holds that message.  The next
\* LLVMRustGetLastError returns the message, and a read that follows a read
\* with no failure in between returns null.
C1_OpenFailureSetsLastError ==
    /\ last.op = "OpenArchive" =>
          /\ Unreadable(last.path) => last.null
          /\ last.null <=> last.h = NullHandle
          /\ last.null <=> last.err # NULL
          /\ last.null => LastError[last.t] = last.err
          /\ ~last.null => archives[last.h].live
    /\ last.op = "GetLastError" /\ last.from = "OpenArchive" =>
          last.s = last.due /\ last.s # NULL
    /\ last.op = "GetLastError" /\ last.from = "read" => last.s = NULL
    /\ last.op = "GetLastError" => LastError[last.t] = NULL

C1_Witness ==
    /\ last.op = "GetLastError"
    /\ last.from = "OpenArchive"
    /\ last.s = ENOENT

\* C2: the slot of a thread always holds the message of the call of that
\* thread that failed most recently since the thread last read the slot, and
\* is empty when there was none, so that LLVMRustGetLastError returns it.
C2_SlotHoldsMostRecentFailure ==
    \A t \in Threads : LastError[t] = fail[t].msg

\* C3: a bridge operation that reports failure only through its return value
\* has set the slot of the calling thread when it returns that failure.
C3_FailureSetsSlot ==
    last.op \in FailingOps /\ last.null =>
        last.err # NULL /\ LastError[last.t] = last.err

\* C4: the slot of a thread holds what that thread itself recorded since it
\* last read its slot: no call of another thread fills, clears or overwrites
\* it, and a read returns only the reader's own message.
C4_SlotsAreThreadLocal ==
    /\ \A t \in Threads : LastError[t] = fail[t].rec
    /\ last.op = "GetLastError" /\ last.s # NULL =>
          last.from \in FailingOps

C4_Witness ==
    /\ last.op = "GetLastError"
    /\ last.t = 2
    /\ last.s = invalid_file_type
    /\ LastError[1] = ENOENT

\* C5: LLVMRustWriteArchive returns 0 or -1; with -1 the slot holds the
\* message of that call and nothing was written, with 0 the destination holds
\* the new archive and the slot is as it was before the call.
C5_WriteInv ==
    last.op = "WriteArchive" =>
        /\ last.h \in {0, -1}
        /\ last.h = -1 <=> last.null
        /\ last.h = -1 =>
              /\ last.err # NULL
              /\ LastError[last.t] = last.err
              /\ llvmMinor < 7 => last.err = EUNSUPPORTED
        /\ last.h = 0 => last.err = NULL /\ wrote[last.path].known

C5_WriteStep ==
    last'.op = "WriteArchive" =>
        /\ last'.h = 0 => LastError' = LastError /\ fs'[last'.path] # NoFile
        /\ last'.h = -1 => fs' = fs

C5_WriteArchiveResult == []C5_WriteInv /\ [][C5_WriteStep]_vars

C5_Witness ==
    /\ last.op = "WriteArchive"
    /\ last.h = 0
    /\ LastError[last.t] = ENOENT

\* The names and payloads an exhausted iterator has handed out, read the way
\* LLVMRustArchiveChildName and LLVMRustArchiveChildData read them.
Yielded(it) ==
    LET a == archives[it.ar]
    IN [j \in 1..Len(it.out) |->
          [name |-> ChildGetName(a.kids[it.out[j]]).name,
           data |-> ChildGetBuffer(a, a.kids[it.out[j]], fs).data]]

\* The position among the regular members of the child in slot c.
Position(c) ==
    children[c].idx - FirstRegular(archives[children[c].ar].kids, 1) + 1

\* C6: an archive written without a symbol table, opened and iterated to the
\* end, yields exactly the members written, names and bytes, in the order they
\* were passed; the name and the data read from each child are those written.
C6_WriteOpenIterateRoundTrip ==
    /\ \A i \in Live(iters) :
          LET src == archives[iters[i].ar].src
          IN src.known /\ ~src.symtab /\ iters[i].ended =>
                Yielded(iters[i]) = src.members
    /\ \A c \in Live(children) :
          LET src == archives[children[c].ar].src
          IN src.known /\ ~src.symtab /\ last.arg = c =>
                /\ Position(c) \in 1..Len(src.members)
                /\ last.op = "ArchiveChildName" =>
                      ~last.null /\ last.s = src.members[Position(c)].name
                /\ last.op = "ArchiveChildData" =>
                      ~last.null /\ last.d = src.members[Position(c)].data

C6_Witness ==
    \E i \in Live(iters) :
        LET src == archives[iters[i].ar].src
        IN /\ src.known /\ ~src.symtab /\ iters[i].ended
           /\ Len(src.members) = 2
           /\ src.members[1] # src.members[2]
           /\ Yielded(iters[i]) = src.members

\* The indices first, first + 1, ..., cur - 1.
Range(first, cur) == [j \in 1..(cur - first) |-> first + j - 1]

\* C7: an iterator hands out each member once, in archive order; its cursor
\* never moves back; LLVMRustArchiveIteratorNext returns NULL at the end and
\* on every later call.
C7_IterInv ==
    /\ \A i \in Live(iters) :
          LET it == iters[i]
              first == FirstRegular(archives[it.ar].kids, 1)
          IN /\ first <= it.cur /\ it.cur <= it.end
             /\ it.out = Range(first, it.cur)
             /\ it.ended => it.cur = it.end
    /\ last.op = "ArchiveIteratorNext" /\ iters[last.arg].live =>
          (last.null <=> iters[last.arg].ended)

C7_IterStep ==
    \A i \in Live(iters) :
        iters'[i].live /\ iters'[i].ar = iters[i].ar =>
            /\ iters'[i].cur >= iters[i].cur
            /\ iters[i].ended /\ last'.op = "ArchiveIteratorNext"
                  /\ last'.arg = i => last'.null /\ iters'[i] = iters[i]

C7_IteratorForwardOnly == []C7_IterInv /\ [][C7_IterStep]_vars

C7_Witness ==
    \E i \in Live(iters) :
        /\ iters[i].ended
        /\ Len(iters[i].out) = 2
        /\ last.op = "ArchiveIteratorNext"
        /\ last.null

\* The call that was made last passed a value that its enum family does not
\* declare.
PassedUndeclared ==
    \E i \in DOMAIN bcall.args : ~Declared(bcall.args[i])

\* What FatalErrorHandler does with Reason, in order.
FatalSequence(Reason) ==
    <<Did("cerr", <<"LLVM ERROR: ", Reason>>, 0),
      Did("RunInterruptHandlers", <<>>, 0),
      Did("exit", <<>>, 101)>>

\* C8: with the fatal handler installed, a fatal error writes the reason to
\* the standard error stream, then runs the backend's interrupt handlers, then
\* exits with code 101; the call that reported it does not return, and the
\* process takes no step after it.
C8_FatalInv ==
    /\ proc = "exited" <=> ~bcall.returned
    /\ proc = "running" => log = <<>>
    /\ proc = "exited" /\ handler = "FatalErrorHandler" =>
          /\ bcall.reason # NULL
          /\ log = FatalSequence(bcall.reason)

C8_FatalStep == proc = "running"

C8_FatalHandlerTerminates == []C8_FatalInv /\ [][C8_FatalStep]_vars

C8_Witness ==
    /\ proc = "exited"
    /\ handler = "FatalErrorHandler"
    /\ bcall.op = "BuildAtomicFence"
    /\ log[3] = Did("exit", <<>>, 101)

\* C9: a call that passes a value outside the declared enumerators of its
\* enum family ends in the fatal error of that family and does not return;
\* the values a node or a function carries are translated from declared
\* enumerators only, and the failing call builds no node from its arguments
\* and leaves the attributes of every function as they were.
C9_EnumInv ==
    /\ PassedUndeclared =>
          /\ proc = "exited"
          /\ ~bcall.returned
          /\ \E i \in DOMAIN bcall.args :
                /\ ~Declared(bcall.args[i])
                /\ bcall.reason = BadValue[bcall.args[i].family]
    /\ \A a \in node.from : Declared(a)
    /\ \A n \in Names : \A a \in module[n].attrs :
          a.from # NULL =>
              /\ Declared(Arg("Attribute", a.from))
              /\ a.kind = AttrKind[a.from]

C9_EnumStep ==
    (\E i \in DOMAIN bcall'.args : ~Declared(bcall'.args[i])) =>
        /\ node' = node \/ node'.from = {}
        /\ module' = module

C9_InvalidEnumIsFatal == []C9_EnumInv /\ [][C9_EnumStep]_vars

C9_Witness ==
    /\ proc = "exited"
    /\ bcall.op = "SetLinkage"
    /\ bcall.args[1].v \notin Enumerators["Linkage"]
    /\ node.kind = "global"
    /\ node.from # {}

\* The caller value of each backend flag: that of the like-named enumerator.
DIFlagValue ==
    {<<"DIFlags::FlagPrivate", FlagPrivate>>,
     <<"DIFlags::FlagProtected", FlagProtected>>,
     <<"DIFlags::FlagPublic", FlagPublic>>,
     <<"DIFlags::FlagFwdDecl", FlagFwdDecl>>,
     <<"DIFlags::FlagAppleBlock", FlagAppleBlock>>,
     <<"DIFlags::FlagBlockByrefStruct", FlagBlockByrefStruct>>,
     <<"DIFlags::FlagVirtual", FlagVirtual>>,
     <<"DIFlags::FlagArtificial", FlagArtificial>>,
     <<"DIFlags::FlagExplicit", FlagExplicit>>,
     <<"DIFlags::FlagPrototyped", FlagPrototyped>>,
     <<"DIFlags::FlagObjcClassComplete", FlagObjcClassComplete>>,
     <<"DIFlags::FlagObjectPointer", FlagObjectPointer>>,
     <<"DIFlags::FlagVector", FlagVector>>,
     <<"DIFlags::FlagStaticMember", FlagStaticMember>>,
     <<"DIFlags::FlagLValueReference", FlagLValueReference>>,
     <<"DIFlags::FlagRValueReference", FlagRValueReference>>,
     <<"DIFlags::FlagExternalTypeRef", FlagExternalTypeRef>>,
     <<"DIFlags::FlagIntroducedVirtual", FlagIntroducedVirtual>>,
     <<"DIFlags::FlagBitField", FlagBitField>>,
     <<"DIFlags::FlagNoReturn", FlagNoReturn>>}

DISPFlagValue ==
    {<<"DISPFlags::SPFlagVirtual", SPFlagVirtual>>,
     <<"DISPFlags::SPFlagPureVirtual", SPFlagPureVirtual>>,
     <<"DISPFlags::SPFlagLocalToUnit", SPFlagLocalToUnit>>,
     <<"DISPFlags::SPFlagDefinition", SPFlagDefinition>>,
     <<"DISPFlags::SPFlagOptimized", SPFlagOptimized>>,
     <<"DISPFlags::SPFlagMainSubprogram", SPFlagMainSubprogram>>,
     <<"DIFlags::FlagMainSubprogram", SPFlagMainSubprogram>>}

RECURSIVE SumOf(_)
SumOf(S) ==
    IF S = {} THEN 0
    ELSE LET x == CHOOSE y \in S : TRUE IN x + SumOf(S \ {x})

\* Decoding a backend flag value: the caller bitset of its flags.
Decode(Table, Result) == SumOf({p[2] : p \in {q \in Table : q[1] \in Result}})

\* The one-bit flags of Table that are set in x, as a bitset.
DeclaredBits(Table, x) ==
    SumOf({p[2] : p \in {q \in Table : q[2] >= 4 /\ isSet(x, q[2])}})

\* A legal caller bitset: a visibility (every two-bit value is declared) and
\* declared one-bit flags; for a subprogram, at most one virtuality bit and
\* declared one-bit flags.
LegalDIFlags(x) == x = visibility(x) + DeclaredBits(DIFlagValue, x)

LegalDISPFlags(x) ==
    /\ virtuality(x) # 3
    /\ x = virtuality(x) + DeclaredBits(DISPFlagValue, x)

\* C10: a legal debug-info or subprogram bitset, translated and decoded
\* back, is the bitset that was passed; an illegal one is rejected, and no
\* node is built from it.
C10_FlagsRoundTripOrRejected ==
    \A i \in DOMAIN bcall.args :
        LET a == bcall.args[i]
        IN /\ a.family = "DIFlags" =>
                 IF LegalDIFlags(a.v)
                 THEN /\ bcall.returned
                      /\ Decode(DIFlagValue, node.vals[1]) = a.v
                 ELSE ~bcall.returned /\ a \notin node.from
           /\ a.family = "DISPFlags" =>
                 IF LegalDISPFlags(a.v)
                 THEN /\ bcall.returned
                      /\ Decode(DISPFlagValue, node.vals[1] \cup node.vals[2])
                            = a.v
                 ELSE ~bcall.returned /\ a \notin node.from

\* The enumerators of LLVMRustDIFlags other than FlagZero, by name.
LLVMRustDIFlags ==
    {<<"FlagPrivate", FlagPrivate>>, <<"FlagProtected", FlagProtected>>,
     <<"FlagPublic", FlagPublic>>, <<"FlagFwdDecl", FlagFwdDecl>>,
     <<"FlagAppleBlock", FlagAppleBlock>>,
     <<"FlagBlockByrefStruct", FlagBlockByrefStruct>>,
     <<"FlagVirtual", FlagVirtual>>, <<"FlagArtificial", FlagArtificial>>,
     <<"FlagExplicit", FlagExplicit>>, <<"FlagPrototyped", FlagPrototyped>>,
     <<"FlagObjcClassComplete", FlagObjcClassComplete>>,
     <<"FlagObjectPointer", FlagObjectPointer>>,
     <<"FlagVector", FlagVector>>, <<"FlagStaticMember", FlagStaticMember>>,
     <<"FlagLValueReference", FlagLValueReference>>,
     <<"FlagRValueReference", FlagRValueReference>>,
     <<"FlagExternalTypeRef", FlagExternalTypeRef>>,
     <<"FlagIntroducedVirtual", FlagIntroducedVirtual>>,
     <<"FlagBitField", FlagBitField>>, <<"FlagNoReturn", FlagNoReturn>>}

\* The caller flag e is set in the bitset x: the visibility field is compared
\* as a two-bit value, every other flag as one bit.
CallerFlagSet(x, e) ==
    IF e[2] < 4 THEN visibility(x) = e[2] ELSE isSet(x, e[2])

\* C11: in the flags of a member type, for every declared caller flag the
\* like-named backend flag is set exactly when the caller flag is set in the
\* bitset passed, and the backend value holds no other flag.
C11_DIFlagsBitByBit ==
    bcall.op = "DIBuilderCreateMemberType" =>
        LET x == bcall.args[1].v
            Result == node.vals[1]
        IN /\ \A e \in LLVMRustDIFlags :
                 ("DIFlags::" \o e[1]) \in Result <=> CallerFlagSet(x, e)
           /\ Result \subseteq {"DIFlags::" \o e[1] : e \in LLVMRustDIFlags}

\* The names of the seven orderings.
OrderingNames ==
    {"NotAtomic", "Unordered", "Monotonic", "Acquire", "Release",
     "AcquireRelease", "SequentiallyConsistent"}

\* Reading an ordering back: the caller enumerator named as the backend one.
OrderingToRust(Ordering) ==
    CHOOSE o \in Enumerators["AtomicOrdering"] :
        \E n \in OrderingNames : /\ o = "LLVMAtomicOrdering" \o n
                                 /\ Ordering = "AtomicOrdering::" \o n

\* C12: an atomic load built with a declared ordering carries the like-named
\* backend ordering, no two orderings translate to the same backend
\* ordering, and the ordering read back from the load is the one passed.
C12_AtomicLoadOrdering ==
    /\ \A a, b \in Enumerators["AtomicOrdering"] :
           fromRust_AtomicOrdering(a).v = fromRust_AtomicOrdering(b).v => a = b
    /\ bcall.op = "BuildAtomicLoad" /\ bcall.returned =>
           /\ node.kind = "load"
           /\ \E n \in OrderingNames :
                 /\ bcall.args[1].v = "LLVMAtomicOrdering" \o n
                 /\ node.vals[1] = "AtomicOrdering::" \o n
           /\ OrderingToRust(node.vals[1]) = bcall.args[1].v

C12_Witness ==
    /\ bcall.op = "BuildAtomicLoad" /\ bcall.returned
    /\ bcall.args[1].v = "LLVMAtomicOrderingSequentiallyConsistent"
    /\ node.vals[1] = "AtomicOrdering::SequentiallyConsistent"

\* The backend linkages and visibilities the wrapper names.
LLVMLinkages == {fromRust_Linkage(l).v : l \in Enumerators["Linkage"]}

LLVMVisibilities == {fromRust_Visibility(v).v : v \in Enumerators["Visibility"]}

\* C13: a linkage or a visibility read from a global is the one last set on
\* it, for each of the 11 linkages and the 3 visibilities (a visibility set
\* before the global was given a local linkage is no longer on it); toRust
\* and fromRust are inverses of each other on these values.
C13_LinkageVisibilityRoundTrip ==
    /\ \A l \in 0..10 :
          fromRust_Linkage(l).ok /\ toRust_Linkage(fromRust_Linkage(l).v).v = l
    /\ \A v \in 0..2 :
          /\ fromRust_Visibility(v).ok
          /\ toRust_Visibility(fromRust_Visibility(v).v).v = v
    /\ \A L \in LLVMLinkages :
          toRust_Linkage(L).ok /\ fromRust_Linkage(toRust_Linkage(L).v).v = L
    /\ \A V \in LLVMVisibilities :
          /\ toRust_Visibility(V).ok
          /\ fromRust_Visibility(toRust_Visibility(V).v).v = V
    /\ bcall.op = "GetLinkage" =>
          /\ bcall.returned
          /\ \A a \in node.from : a.family = "Linkage" => bcall.ret = a.v
    /\ bcall.op = "GetVisibility" =>
          /\ bcall.returned
          /\ \A a \in node.from : a.family = "Visibility" => bcall.ret = a.v

C13_Witness ==
    /\ bcall.op = "GetLinkage" /\ bcall.ret = 10
    /\ Arg("Linkage", 10) \in node.from
    /\ Arg("Visibility", 2) \in node.from

----------------------------------------------------------------------------
(* Claims about pads, compare-exchange and the inline-assembly check.      *)

PadOps == {"BuildCleanupPad", "BuildCatchPad", "BuildCatchSwitch"}

\* C14: each pad-building operation gives the backend builder the token
\* "none" for a null parent pad and the parent itself otherwise; the builder
\* never gets a null parent.
C14_NullParentPadReplaced ==
    bcall.op \in PadOps =>
        /\ bcall.returned
        /\ node.vals[1] # NULL
        /\ node.vals[1] = IF bcall.args[1].v = NULL THEN TokenNone
                          ELSE bcall.args[1].v

\* C15: the compare-exchange built carries the two orderings, each
\* translated on its own, and is weak exactly when Weak is not zero; executed
\* with a supported pair of orderings, one that is not weak succeeds whenever
\* the cell holds the expected value.
C15_CmpXchgWeak ==
    /\ bcall.op = "BuildAtomicCmpXchg" /\ bcall.returned =>
          /\ node.kind = "cmpxchg"
          /\ node.vals[1] = fromRust_AtomicOrdering(bcall.args[1].v).v
          /\ node.vals[2] = fromRust_AtomicOrdering(bcall.args[2].v).v
          /\ \A i \in 1..2 : \E n \in OrderingNames :
                /\ bcall.args[i].v = "LLVMAtomicOrdering" \o n
                /\ node.vals[i] = "AtomicOrdering::" \o n
          /\ node.vals[3] <=> bcall.args[3].v # 0
    /\ bcall.op = "cmpxchg" =>
          /\ node.kind = "cmpxchg"
          /\ SupportedPair(node.vals[1], node.vals[2])
          /\ ~node.vals[3] /\ bcall.ret.old = bcall.ret.cmp =>
                bcall.ret.success
          /\ bcall.ret.success => bcall.ret.old = bcall.ret.cmp

C15_Witness ==
    /\ bcall.op = "cmpxchg"
    /\ ~node.vals[3]
    /\ node.vals[1] = "AtomicOrdering::AcquireRelease"
    /\ node.vals[2] = "AtomicOrdering::Acquire"
    /\ bcall.ret = Exchanged(1, 1, TRUE)
    /\ mem = 0

\* C16: LLVMRustInlineAsmVerify answers with a boolean, false for a string
\* that does not fit; the call constructs no value, leaves every thread's
\* Last-Error slot as it was and does not end in a fatal error.
C16_VerifyInv ==
    bcall.op = "InlineAsmVerify" =>
        /\ proc = "running"
        /\ bcall.returned
        /\ bcall.ret \in BOOLEAN
        /\ bcall.ret <=> Verify(bcall.args[1].v)

C16_VerifyStep ==
    bcall'.op = "InlineAsmVerify" =>
        /\ node' = node
        /\ LastError' = LastError
        /\ proc' = proc /\ log' = log

C16_InlineAsmVerifyResultOnly == []C16_VerifyInv /\ [][C16_VerifyStep]_vars

C16_Witness ==
    /\ bcall.op = "InlineAsmVerify"
    /\ bcall.args[1].v = "=r,,r"
    /\ bcall.ret = FALSE
    /\ node = NoNode
    /\ proc = "running"

----------------------------------------------------------------------------
(* Claims about debug info and diagnostics.                                *)

\* The expression of the constant c: its sign-extended value for an integer,
\* its bit pattern for a floating-point number, none for anything else.
ConstantValueExpression(c) ==
    CASE c.kind = "ConstantInt" ->
             createConstantValueExpression(getSExtValue(c))
      [] c.kind = "ConstantFP" -> createConstantValueExpression(c.raw)
      [] OTHER -> <<>>

\* C17: the entry LLVMRustDIBuilderCreateStaticVariable creates carries the
\* constant-value expression of the global's integer or floating-point
\* constant and no expression otherwise, and is the global's "dbg" metadata.
C17_StaticVariableConstant ==
    bcall.op = "DIBuilderCreateStaticVariable" =>
        /\ node.kind = "DIGlobalVariableExpression"
        /\ node.vals[1] = ConstantValueExpression(gv.init)
        /\ gv.dbg = node

BuilderOps == {"DIBuilderCreate", "DIBuilderFinalize", "DIBuilderDispose"}

\* C18 as stated: a builder is finalized exactly once, and before it is
\* disposed of; disposing of a builder does not finalize it and does not end
\* in a fatal error.
C18_FinalizedOnceBeforeDispose ==
    /\ dibuilder.finalized <= 1
    /\ bcall.op = "DIBuilderDispose" =>
          /\ dibuilder.finalized = 1
          /\ bcall.returned /\ proc = "running"

C18_BuilderInv ==
    bcall.op \in BuilderOps => bcall.returned /\ proc = "running"

C18_BuilderStep ==
    /\ bcall'.op = "DIBuilderDispose" =>
          /\ dibuilder.live /\ ~dibuilder'.live
          /\ dibuilder'.finalized = dibuilder.finalized
    /\ bcall'.op = "DIBuilderFinalize" =>
          /\ dibuilder.live /\ dibuilder'.live
          /\ dibuilder'.finalized = dibuilder.finalized + 1
    /\ dibuilder' # dibuilder => bcall'.op \in BuilderOps

\* C18, amended: the wrapper holds the caller to no order.  Each
\* LLVMRustDIBuilderFinalize finalizes the live builder once more, and only
\* it does; LLVMRustDIBuilderDispose deletes the builder without finalizing
\* it, however often it was finalized, and no builder call ends in a fatal
\* error.
C18_DisposeNeverFinalizes == []C18_BuilderInv /\ [][C18_BuilderStep]_vars

C18_Witness ==
    /\ bcall.op = "DIBuilderDispose"
    /\ ~dibuilder.live
    /\ dibuilder.finalized = 0
    /\ bcall.returned /\ proc = "running"

C19_VariantInv ==
    /\ \A i \in DOMAIN elems : elems[i].vals[1] = VariantNames[i]
    /\ bcall.op = "DIBuilderCreateVariantMemberType" =>
          /\ node.kind = "DW_TAG_member"
          /\ node.vals[2] = bcall.args[1].v
          /\ elems # <<>> /\ elems[Len(elems)] = node
    /\ bcall.op = "DIBuilderCreateVariantPart" =>
          /\ node.kind = "DW_TAG_variant_part"
          /\ node.vals[1] = bcall.args[1].v
          /\ composite = node
    /\ composite # NoNode =>
          /\ composite.kind = "DW_TAG_variant_part"
          /\ \A i \in DOMAIN composite.vals[2] :
                composite.vals[2][i].vals[1] = VariantNames[i]

C19_VariantStep ==
    /\ bcall'.op = "DIBuilderCreateVariantMemberType" =>
          /\ node'.vals[2] = bcall'.args[1].v
          /\ elems' = Append(elems, node')
    /\ bcall'.op = "DIBuilderCreateVariantPart" =>
          /\ node'.vals[2] = elems
          /\ composite' = node'
    /\ bcall'.op = "DICompositeTypeReplaceArrays" =>
          /\ composite'.vals[1] = composite.vals[1]
          /\ composite'.vals[2] = bcall'.args[1].v
          /\ node' = IF node = composite THEN composite' ELSE node
    /\ composite' # composite =>
          bcall'.op \in {"DIBuilderCreateVariantPart",
                         "DICompositeTypeReplaceArrays"}

\* C19: a variant member is keyed on the discriminant supplied, on none if
\* it is null, and the variant part holds the members made for it in their
\* order, each with the discriminant it was made with, and the discriminator
\* supplied.  The part keeps them through every later call except
\* LLVMRustDICompositeTypeReplaceArrays, which puts the array of elements
\* it is given in their place and leaves the discriminator; a handle to the
\* part shows the change.
C19_VariantMapping == []C19_VariantInv /\ [][C19_VariantStep]_vars

C19_Witness ==
    /\ bcall.op = "DIBuilderCreateVariantPart"
    /\ node.vals[1] = "tag"
    /\ Len(node.vals[2]) = 3
    /\ \A i \in 1..3 : node.vals[2][i].vals[2] = ConstantInt(64, 3 - i)
    /\ composite = node

\* The backend kinds toRust lists, and the enumerators of
\* LLVMRustDiagnosticKind.
ListedKinds ==
    {"DK_InlineAsm", "DK_StackSize", "DK_DebugMetadataVersion",
     "DK_SampleProfile", "DK_OptimizationRemark",
     "DK_OptimizationRemarkMissed", "DK_OptimizationRemarkAnalysis",
     "DK_OptimizationRemarkAnalysisFPCommute",
     "DK_OptimizationRemarkAnalysisAliasing", "DK_PGOProfile", "DK_Linker",
     "DK_Unsupported"}

LLVMRustDiagnosticKind ==
    {"Other", "InlineAsm", "StackSize", "DebugMetadataVersion",
     "SampleProfile", "OptimizationRemark", "OptimizationRemarkMissed",
     "OptimizationRemarkAnalysis", "OptimizationRemarkAnalysisFPCommute",
     "OptimizationRemarkAnalysisAliasing", "OptimizationRemarkOther",
     "OptimizationFailure", "PGOProfile", "Linker", "Unsupported"}

\* C20: LLVMRustGetDiagInfoKind returns for every backend kind: the
\* like-named entry for a listed kind, OptimizationRemarkOther for any other
\* kind within the remark range, Other for the rest.
C20_DiagKindTotal ==
    bcall.op = "GetDiagInfoKind" =>
        LET k == bcall.args[1].v
            name == IF k + 1 \in DOMAIN DiagnosticKind
                    THEN DiagnosticKind[k + 1] ELSE "plugin"
        IN /\ bcall.returned /\ proc = "running"
           /\ bcall.ret \in LLVMRustDiagnosticKind
           /\ IF name \in ListedKinds THEN "DK_" \o bcall.ret = name
              ELSE IF k \in DK_FirstRemark..DK_LastRemark
              THEN bcall.ret = "OptimizationRemarkOther"
              ELSE bcall.ret = "Other"

C20_Witness ==
    /\ bcall.op = "GetDiagInfoKind"
    /\ bcall.args[1].v = DK("DK_OptimizationFailure")
    /\ bcall.ret = "OptimizationRemarkOther"

\* The entries the caller unpacks with a kind-specific decoder: the
\* inline-assembly diagnostic and the optimization remarks.
SpecificKinds ==
    {"InlineAsm", "OptimizationRemark", "OptimizationRemarkMissed",
     "OptimizationRemarkAnalysis", "OptimizationRemarkAnalysisFPCommute",
     "OptimizationRemarkAnalysisAliasing", "OptimizationRemarkOther",
     "OptimizationFailure"}

\* C21 as stated: a diagnostic of the backend's unsupported kind is
\* classified as the generic Other entry, without a fatal error and not as a
\* kind with a specific unpacking path.
C21_UnsupportedIsOther ==
    (bcall.op = "GetDiagInfoKind"
     /\ bcall.args[1].v = DK("DK_Unsupported")) =>
        /\ bcall.returned /\ proc = "running"
        /\ bcall.ret = "Other"
        /\ bcall.ret \notin SpecificKinds

\* C21: a diagnostic of the backend's unsupported kind is classified as the
\* Unsupported entry of the taxonomy, which is distinct from Other; the call
\* returns without a fatal error and the result is not a kind with a
\* specific unpacking path.
C21_UnsupportedIsUnsupported ==
    (bcall.op = "GetDiagInfoKind"
     /\ bcall.args[1].v = DK("DK_Unsupported")) =>
        /\ bcall.returned /\ proc = "running"
        /\ bcall.ret = "Unsupported"
        /\ bcall.ret # "Other"
        /\ bcall.ret \notin SpecificKinds

C21_Witness ==
    /\ bcall.op = "GetDiagInfoKind"
    /\ bcall.args[1].v = DK("DK_Unsupported")
    /\ bcall.returned
    /\ bcall.ret = "Unsupported"

\* C29: LLVMRustGetDiagInfoKind never returns OptimizationFailure, whatever
\* the backend kind; a backend optimization-failure diagnostic is classified
\* as OptimizationRemarkOther.
C29_NeverOptimizationFailure ==
    bcall.op = "GetDiagInfoKind" =>
        /\ "OptimizationFailure" \in LLVMRustDiagnosticKind
        /\ bcall.ret # "OptimizationFailure"
        /\ bcall.args[1].v = DK("DK_OptimizationFailure") =>
               bcall.ret = "OptimizationRemarkOther"

C29_Witness ==
    /\ bcall.op = "GetDiagInfoKind"
    /\ bcall.args[1].v = DK("DK_OptimizationFailure")
    /\ bcall.returned
    /\ bcall.ret # "OptimizationFailure"

----------------------------------------------------------------------------
(* Claims about unpacking diagnostics.                                     *)

LocationOuts == {<<"Line", 0>>, <<"Column", 0>>, <<"FilenameOut", 0>>}

\* C22: LLVMRustUnpackOptimizationDiagnostic always writes the pass name,
\* the function handle and the message; it writes the line, the column and
\* the absolute path exactly when the location is valid, and with an invalid
\* location *Line and *Column keep the caller's values and the filename
\* output stays empty.
C22_OptimizationOutputs ==
    bcall.op = "UnpackOptimizationDiagnostic" =>
        LET D == bcall.args[1].v
            prior == bcall.args[2].v
        IN /\ bcall.returned /\ proc = "running"
           /\ {<<"PassNameOut", 0>>, <<"FunctionOut", 0>>, <<"MessageOut", 0>>}
                 \subseteq out.touched
           /\ out.PassNameOut = D.PassName
           /\ out.FunctionOut = D.Function
           /\ out.MessageOut = D.Msg
           /\ IF D.Loc.File # NoDIFile
              THEN /\ LocationOuts \subseteq out.touched
                   /\ out.Line = D.Loc.Line
                   /\ out.Column = D.Loc.Column
                   /\ out.FilenameOut \in {"/work/src/lib.rs",
                                           "/rustc/core/mem.rs"}
                   /\ out.FilenameOut = getAbsolutePath(D.Loc)
              ELSE /\ LocationOuts \cap out.touched = {}
                   /\ out.Line = prior.Line
                   /\ out.Column = prior.Column
                   /\ out.FilenameOut = ""

C22_Witness ==
    /\ bcall.op = "UnpackOptimizationDiagnostic"
    /\ bcall.args[1].v.Loc.File = NoDIFile
    /\ bcall.args[2].v.Line # 0
    /\ out.Line = bcall.args[2].v.Line
    /\ out.FilenameOut = ""
    /\ out.MessageOut = "loop not vectorized"

\* The call returned true: the diagnostic has a location.
Unpacked ==
    /\ bcall.op = "UnpackSMDiagnostic"
    /\ bcall.returned
    /\ bcall.ret = TRUE

Max(a, b) == IF a > b THEN a ELSE b

\* The ranges the parser marked that meet the line of the error, in order.
MarkedOnLine(D) ==
    LET o == D.Loc.Ptr - BufferStart
    IN SelectSeq(D.SMRanges,
                 LAMBDA R : ~(R[1] > LineEndOf(D.Buf, o)
                              \/ R[2] < LineStartOf(D.Buf, o)))

\* C23 as stated: each pair written to RangesOut is a half-open pair of
\* columns measured from the start of the line that holds the error.
C23_RangesFromLineStart ==
    Unpacked =>
        LET D == bcall.args[1].v
            o == D.Loc.Ptr - BufferStart
            marked == MarkedOnLine(D)
        IN \A i \in 0..(out.NumRanges - 1) :
              /\ out.RangesOut[2 * i] <= out.RangesOut[2 * i + 1]
              /\ out.RangesOut[2 * i]
                   = Max(marked[i + 1][1], LineStartOf(D.Buf, o))
                     - LineStartOf(D.Buf, o)
              /\ out.RangesOut[2 * i + 1]
                   = Min(marked[i + 1][2], LineEndOf(D.Buf, o))
                     - LineStartOf(D.Buf, o)

\* C23: each pair written to RangesOut is a half-open pair of byte offsets
\* measured from the start of the parsed buffer: the marked range clipped to
\* the line that holds the error, which is the diagnostic's column pair
\* added to the offset of the start of that line.
C23_RangesFromBufferStart ==
    Unpacked =>
        LET D == bcall.args[1].v
            o == D.Loc.Ptr - BufferStart
            marked == MarkedOnLine(D)
        IN \A i \in 0..(out.NumRanges - 1) :
              /\ out.RangesOut[2 * i] <= out.RangesOut[2 * i + 1]
              /\ out.RangesOut[2 * i]
                   = Max(marked[i + 1][1], LineStartOf(D.Buf, o))
              /\ out.RangesOut[2 * i + 1]
                   = Min(marked[i + 1][2], LineEndOf(D.Buf, o))
              /\ out.RangesOut[2 * i] >= LineStartOf(D.Buf, o)
              /\ out.RangesOut[2 * i + 1] <= LineEndOf(D.Buf, o)

\* An error on the second line with a range on that line.
C23_Witness ==
    /\ Unpacked
    /\ out.LocOut = 3
    /\ bcall.args[1].v.SMRanges = <<<<2, 4>>>>
    /\ out.NumRanges = 1
    /\ out.RangesOut[0] = 2
    /\ out.RangesOut[1] = 4

\* C24: on a true return *NumRanges is the smaller of the caller's maximum
\* and the number of ranges of the diagnostic, and exactly the first
\* 2 * *NumRanges entries of RangesOut are written; on a false return the
\* buffer output, *LocOut, RangesOut and *NumRanges are as the caller
\* prepared them, and the message and the level have been written.
C24_RangesBounded ==
    (bcall.op = "UnpackSMDiagnostic" /\ bcall.returned) =>
        LET D == bcall.args[1].v
            prior == bcall.args[2].v
            ranges == {t \in out.touched : t[1] = "RangesOut"}
        IN /\ {<<"MessageOut", 0>>, <<"LevelOut", 0>>} \subseteq out.touched
           /\ out.MessageOut = D.Message
           /\ "DK_" \o out.LevelOut = D.Kind
           /\ bcall.ret = (D.Loc # NoSMLoc)
           /\ IF bcall.ret
              THEN /\ out.NumRanges <= prior.NumRanges
                   /\ out.NumRanges <= Len(D.Ranges)
                   /\ out.NumRanges \in {prior.NumRanges, Len(D.Ranges)}
                   /\ ranges = {<<"RangesOut", i>> :
                                   i \in 0..(2 * out.NumRanges - 1)}
                   /\ Cardinality(ranges) = 2 * out.NumRanges
                   /\ \A i \in DOMAIN out.RangesOut :
                          i >= 2 * out.NumRanges =>
                              out.RangesOut[i] = prior.RangesOut[i]
              ELSE /\ out.touched = {<<"MessageOut", 0>>, <<"LevelOut", 0>>}
                   /\ out.BufferOut = prior.BufferOut
                   /\ out.LocOut = prior.LocOut
                   /\ out.RangesOut = prior.RangesOut
                   /\ out.NumRanges = prior.NumRanges

\* More ranges in the diagnostic than the caller accepts.
C24_Witness ==
    /\ Unpacked
    /\ Len(bcall.args[1].v.Ranges) = 2
    /\ bcall.args[2].v.NumRanges = 1
    /\ out.NumRanges = 1
    /\ out.touched \cap {<<"RangesOut", 2>>, <<"RangesOut", 3>>} = {}

----------------------------------------------------------------------------
(* Claims about reading constants back.                                    *)

\* The widths the compiler's integer types have.
CommonSizes == {1, 8, 16, 32, 64, 128}

\* Bit i (from 1, least significant first) of the pair high:low.
BitOf(high, low, i) ==
    IF i <= WordBits THEN low[i] ELSE high[i - WordBits]

\* high:low is the constant C extended to 128 bits by its sign bit (sext) or
\* by zeros.
Extended(C, sext, high, low) ==
    \A i \in 1..WideBits :
        BitOf(high, low, i)
          = IF i <= C.BitWidth THEN C.Bits[i]
            ELSE IF sext THEN C.Bits[C.BitWidth] ELSE 0

\* C25: LLVMRustConstInt128Get returns true exactly when *high and *low were
\* both set; it returns false and leaves them alone whenever the width of
\* the constant is not 1, 8, 16, 32, 64 or 128 bits; on success high:low is
\* the constant sign-extended (sext) or zero-extended to 128 bits.
C25_ConstInt128Get ==
    bcall.op = "ConstInt128Get" =>
        LET C == bcall.args[1].v
            sext == bcall.args[2].v
            prior == bcall.args[3].v
        IN /\ bcall.returned
           /\ bcall.ret = ({<<"low", 0>>, <<"high", 0>>} \subseteq out.touched)
           /\ C.BitWidth \notin CommonSizes =>
                  /\ bcall.ret = FALSE
                  /\ out.touched = {}
                  /\ out.high = prior.high /\ out.low = prior.low
           /\ bcall.ret => Extended(C, sext, out.high, out.low)

----------------------------------------------------------------------------
(* Claims about variables and subprograms.                                 *)

\* C26: LLVMRustDIBuilderCreateVariable makes an auto variable with the
\* alignment passed, whatever ArgNo is, when Tag is 0x100, and a parameter
\* variable with the ArgNo passed, whatever AlignInBits is, for every other
\* Tag; the call returns for every Tag.
C26_VariableByTag ==
    bcall.op = "DIBuilderCreateVariable" =>
        LET Tag == bcall.args[2].v
            ArgNo == bcall.args[3].v
            AlignInBits == bcall.args[4].v
        IN /\ bcall.returned /\ proc = "running"
           /\ node.kind = "DILocalVariable"
           /\ IF Tag = 256
              THEN /\ node.vals[2] = "auto"
                   /\ node.vals[3] = 0
                   /\ node.vals[4] = AlignInBits
              ELSE /\ node.vals[2] = "parameter"
                   /\ node.vals[3] = ArgNo
                   /\ node.vals[4] = 0

C26_Witness ==
    /\ bcall.op = "DIBuilderCreateVariable"
    /\ bcall.args[2].v = 257
    /\ bcall.args[3].v = 2
    /\ bcall.args[4].v = 8
    /\ node.vals[2] = "parameter"
    /\ node.vals[3] = 2

\* C27: a subprogram made with the caller's SPFlagMainSubprogram bit is
\* marked as the entry point by exactly one backend flag, the subprogram
\* flag from LLVM 9 on and the debug-info flag before; made without the bit
\* it carries neither flag.  It is attached to a function exactly when
\* MaybeFn is not null.
C27_MainSubprogramOnce ==
    bcall.op = "DIBuilderCreateFunction" =>
        LET SPFlags == bcall.args[2].v
            MaybeFn == bcall.args[3].v
            main == (SPFlags \div 32) % 2 = 1
            bySP == "DISPFlags::SPFlagMainSubprogram" \in node.vals[2]
            byDI == "DIFlags::FlagMainSubprogram" \in node.vals[1]
        IN /\ bcall.returned
           /\ main => IF llvmMajor >= 9 THEN bySP /\ ~byDI ELSE byDI /\ ~bySP
           /\ ~main => ~bySP /\ ~byDI
           /\ node.vals[3] = IF MaybeFn = NULL THEN {} ELSE {MaybeFn}
           /\ (node.vals[3] # {}) <=> (MaybeFn # NULL)

C27_Witness ==
    /\ bcall.op = "DIBuilderCreateFunction"
    /\ llvmMajor = 8
    /\ isSet(bcall.args[2].v, SPFlagMainSubprogram)
    /\ "DIFlags::FlagMainSubprogram" \in node.vals[1]
    /\ node.vals[3] = {"@main"}

----------------------------------------------------------------------------
(* Claims about the ownership of messages.                                 *)

\* No block has been freed twice, and a block whose address the caller got
\* from LLVMRustGetLastError is allocated, holds the message it held then
\* and is in the slot of no thread that is outside LLVMRustSetLastError (a
\* thread inside it has freed its slot's block and is about to overwrite
\* the slot).  The slot of a thread outside it is null or the address of an
\* allocated block that is in no other such slot.
C28_OwnedInv ==
    /\ \A t \in Threads :
          (pending[t] = NULL /\ LastError[t] # NULL) =>
              /\ heap[LastError[t]].state = "allocated"
              /\ \A u \in Threads \ {t} :
                    pending[u] = NULL => LastError[u] # LastError[t]
    /\ \A p \in Addresses :
        /\ heap[p].state # "freed twice"
        /\ heap[p].caller =>
               /\ heap[p].state = "allocated"
               /\ heap[p].msg = heap[p].ret
               /\ \A t \in Threads : pending[t] = NULL => LastError[t] # p

\* LLVMRustSetLastError frees at most the block of the calling thread's slot,
\* which the caller has not read, and writes to no block the caller holds.
C28_SetStep ==
    last'.op = "SetLastError" =>
        \A p \in Addresses :
            /\ (heap[p].state = "allocated" /\ heap'[p] # heap[p]) =>
                   ~heap[p].caller /\ p = LastError[last'.t]
            /\ heap[p].caller => heap'[p] = heap[p]

\* C28: a message returned by LLVMRustGetLastError belongs to the caller: no
\* later call frees or overwrites it, LLVMRustSetLastError frees only a
\* message that has not been read, no message is freed twice and no address
\* the caller holds dangles, however the free and the strdup of one
\* thread's LLVMRustSetLastError interleave with the other thread's calls.
C28_MessageOwnership == []C28_OwnedInv /\ [][C28_SetStep]_vars

\* The caller holds a message it read, and the thread that read it has set
\* another since.
C28_Witness ==
    /\ last.op = "SetLastError"
    /\ pending[last.t] = NULL
    /\ LastError[last.t] # NULL
    /\ \E p \in Addresses :
          /\ heap[p].caller
          /\ heap[p].state = "allocated"
          /\ heap[p].ret # last.s
          /\ LastError[last.t] # p

----------------------------------------------------------------------------
(* Claims about the members of a written archive.                          *)

\* The one source of the member m: the file when it has a filename, its
\* child otherwise; whether that source can be read (a child is read by its
\* own name and its bytes), and its bytes.
FromFile(m) == m.filename # NULL

Readable(m) ==
    IF FromFile(m) THEN fs[m.filename] # NoFile
    ELSE /\ ChildGetName(Kid(m.child)).ok
         /\ ChildGetBuffer(archives[m.child.ar], Kid(m.child), fs).ok

SourceData(m) ==
    IF FromFile(m) THEN FileData(fs[m.filename])
    ELSE ChildGetBuffer(archives[m.child.ar], Kid(m.child), fs).data

\* C30: LLVMRustWriteArchive consumes the members in the order given and
\* takes each from one source, the file at filename whenever filename is not
\* null, also when a child was given, and the stored child otherwise: a
\* successful write put exactly those bytes under the names given, in order,
\* and a write fails when one of those sources cannot be read.  Every member
\* it consumed has a name.
C30_MembersInOrderOneSource ==
    (last.op = "WriteArchive" /\ llvmMinor >= 7) =>
        LET given == last.d
        IN /\ \A i \in DOMAIN given : given[i].name # NULL
           /\ last.null <=> \E i \in DOMAIN given : ~Readable(given[i])
           /\ ~last.null =>
                  fs[last.path]
                    = ArchiveBytes([i \in DOMAIN given |->
                                       [name |-> given[i].name,
                                        data |-> SourceData(given[i])]],
                                   wrote[last.path].symtab)

\* A member given both a file and a child, written after a member taken
\* from a child.
C30_Witness ==
    /\ last.op = "WriteArchive"
    /\ ~last.null
    /\ Len(last.d) = 2
    /\ last.d[1].filename = NULL
    /\ last.d[1].child # NoChild
    /\ last.d[2].filename = "x.o"
    /\ last.d[2].child # NoChild
    /\ fs[last.path]
         = ArchiveBytes(<<[name |-> "m2", data |-> Kid(last.d[1].child).data],
                          [name |-> "m3", data |-> FileData(fs["x.o"])]>>,
                        FALSE)

====
